---------------------------- MODULE Spec2Model ----------------------------
(***************************************************************************)
(* Model of the NEV collaborator registry (src/main.py, revision 2.8; the  *)
(* wizard code of src/app.py, revision 2.7, is the same up to the optional *)
(* fields it carries).                                                     *)
(*                                                                         *)
(* Text is modelled as a sequence of one-character strings, so that the    *)
(* conversions of the code (digit filtering, CPF formatting, strip,        *)
(* upper-casing, date parsing, matricula formatting and parsing) are       *)
(* computed and never assumed.                                             *)
(***************************************************************************)
EXTENDS Integers, Sequences, FiniteSets, TLC

(***************************************************************************)
(* Bounds of the model.                                                    *)
(***************************************************************************)
\* Rows of `colaboradores` the model lets the program store.
MaxColab == 2
\* Rows of `convites`, and entries of `logs_sistema` beyond which no edit is made.
MaxConvites == 1
\* invitations stored where only invitations are created and expire
MaxConvitesCpf == 3
MaxLogs == 2
MaxObs == 1
MaxUsuarios == 3
\* calls of formatar_cpf on one text
MaxFormatacoes == 2

(***************************************************************************)
(* Text helpers.                                                           *)
(***************************************************************************)
DigitChars == <<"0", "1", "2", "3", "4", "5", "6", "7", "8", "9">>

\* str.isdigit on one character
isdigit(ch) == \E i \in 1..10 : DigitChars[i] = ch

\* int(ch) for a digit character
DigitVal(ch) == (CHOOSE i \in 1..10 : DigitChars[i] = ch) - 1

\* ''.join(filter(str.isdigit, s))
OnlyDigits(s) == SelectSeq(s, isdigit)

RECURSIVE lstrip(_)
lstrip(s) == IF s # << >> /\ Head(s) = " " THEN lstrip(Tail(s)) ELSE s

RECURSIVE rstrip(_)
rstrip(s) ==
    IF s # << >> /\ s[Len(s)] = " " THEN rstrip(SubSeq(s, 1, Len(s) - 1)) ELSE s

\* str.strip()
strip(s) == rstrip(lstrip(s))

\* one character of str.upper() / str.lower() over the model's alphabet
UpperCh(ch) == CASE ch = "a" -> "A" [] ch = "n" -> "N" [] OTHER -> ch
LowerCh(ch) == CASE ch = "A" -> "a" [] ch = "N" -> "n" [] OTHER -> ch
upper(s) == [i \in 1..Len(s) |-> UpperCh(s[i])]
lower(s) == [i \in 1..Len(s) |-> LowerCh(s[i])]

\* int(s) for a non-empty digit string
RECURSIVE StrToInt(_)
StrToInt(s) ==
    IF s = << >> THEN 0
    ELSE 10 * StrToInt(SubSeq(s, 1, Len(s) - 1)) + DigitVal(s[Len(s)])

\* str(n) for n >= 0
RECURSIVE IntToStr(_)
IntToStr(n) ==
    IF n < 10 THEN <<DigitChars[n + 1]>>
    ELSE IntToStr(n \div 10) \o <<DigitChars[(n % 10) + 1]>>

\* f'{n:04d}'
RECURSIVE ZeroPad(_, _)
ZeroPad(s, w) == IF Len(s) >= w THEN s ELSE ZeroPad(<<"0">> \o s, w)
Fmt04d(n) == ZeroPad(IntToStr(n), 4)

(***************************************************************************)
(* Validation utilities (main.py 122-168).                                 *)
(***************************************************************************)
\* sum(int(cpf[num]) * ((i + 1) - num) for num in range(i)), 0-based num
RECURSIVE Soma(_, _, _)
Soma(c, i, num) ==
    IF num >= i THEN 0
    ELSE DigitVal(c[num + 1]) * ((i + 1) - num) + Soma(c, i, num + 1)

\* digito = (soma * 10 % 11) % 10
Digito(c, i) == ((Soma(c, i, 0) * 10) % 11) % 10

\* validar_cpf without the test for eleven identical digits
validar_cpf_AceitaRepetidos(cpf) ==
    LET c == OnlyDigits(cpf) IN
    IF Len(c) # 11 THEN FALSE
    ELSE \A i \in 9..10 : Digito(c, i) = DigitVal(c[i + 1])

validar_cpf(cpf) ==
    LET c == OnlyDigits(cpf) IN
    IF Len(c) # 11 \/ (\A k \in 1..11 : c[k] = c[1]) THEN FALSE
    ELSE \A i \in 9..10 : Digito(c, i) = DigitVal(c[i + 1])

\* formatar_cpf that leaves the text as typed
formatar_cpf_AsTyped(cpf) == cpf

formatar_cpf(cpf) ==
    LET c == OnlyDigits(cpf) IN
    IF Len(c) = 11
    THEN SubSeq(c, 1, 3) \o <<".">> \o SubSeq(c, 4, 6) \o <<".">>
         \o SubSeq(c, 7, 9) \o <<"-">> \o SubSeq(c, 10, 11)
    ELSE c


\* sanitize_input: a falsy text is returned as it is; otherwise every
\* <script ...>...</script> element is removed (one such element is the single
\* token "<script>" of the model's alphabet), the text is stripped and, with
\* upper_case, upper-cased.
NotScript(ch) == ch # "<script>"
sanitize_input(texto, upper_case) ==
    IF texto = << >> THEN texto
    ELSE LET t == strip(SelectSeq(texto, NotScript)) IN
         IF upper_case THEN upper(t) ELSE t

formatar_telefone(tel) ==
    IF tel = << >> THEN << >>
    ELSE LET t == OnlyDigits(tel) IN
         IF Len(t) = 11
         THEN <<"(">> \o SubSeq(t, 1, 2) \o <<")", " ">> \o SubSeq(t, 3, 7)
              \o <<"-">> \o SubSeq(t, 8, 11)
         ELSE IF Len(t) = 10
         THEN <<"(">> \o SubSeq(t, 1, 2) \o <<")", " ">> \o SubSeq(t, 3, 6)
              \o <<"-">> \o SubSeq(t, 7, 10)
         ELSE tel

(***************************************************************************)
(* datetime.strptime(s, '%Y-%m-%d').date(): three numeric parts separated  *)
(* by "-", a four-digit year, a month 1..12 and a day of that month.       *)
(***************************************************************************)
IsDigits(s) == s # << >> /\ \A i \in 1..Len(s) : isdigit(s[i])

DaysIn(y, m) ==
    IF m \in {4, 6, 9, 11} THEN 30
    ELSE IF m = 2
    THEN (IF (y % 4 = 0 /\ y % 100 # 0) \/ y % 400 = 0 THEN 29 ELSE 28)
    ELSE 31

DashPos(s) == {i \in 1..Len(s) : s[i] = "-"}

DateParts(s) ==
    LET P  == DashPos(s)
        p1 == CHOOSE i \in P : \A j \in P : i <= j
        p2 == CHOOSE i \in P : \A j \in P : j <= i
    IN  <<SubSeq(s, 1, p1 - 1), SubSeq(s, p1 + 1, p2 - 1), SubSeq(s, p2 + 1, Len(s))>>

\* TRUE iff strptime does not raise ValueError
strptime_ok(s) ==
    /\ Cardinality(DashPos(s)) = 2
    /\ LET p == DateParts(s) IN
       /\ Len(p[1]) = 4 /\ IsDigits(p[1]) /\ StrToInt(p[1]) >= 1
       /\ Len(p[2]) \in 1..2 /\ IsDigits(p[2]) /\ StrToInt(p[2]) \in 1..12
       /\ Len(p[3]) \in 1..2 /\ IsDigits(p[3])
       /\ StrToInt(p[3]) \in 1..DaysIn(StrToInt(p[1]), StrToInt(p[2]))

strptime(s) ==
    LET p == DateParts(s) IN
    [y |-> StrToInt(p[1]), m |-> StrToInt(p[2]), d |-> StrToInt(p[3])]

(***************************************************************************)
(* Python dict helpers for the session and the merged wizard data.         *)
(***************************************************************************)
EmptyDict == << >>

\* d.get(k, default)
Get(d, k, default) == IF k \in DOMAIN d THEN d[k] ELSE default

\* d1.update(d2)
Update(d1, d2) ==
    [k \in (DOMAIN d1) \cup (DOMAIN d2) |-> IF k \in DOMAIN d2 THEN d2[k] ELSE d1[k]]

\* d.pop(k, None) for every k of K
PopAll(d, K) == [k \in (DOMAIN d) \ K |-> d[k]]

\* `not d.get(k)` for a text field: the key is absent or the text is empty
Falsy(d, k) == k \notin DOMAIN d \/ d[k] = << >>

(***************************************************************************)
(* Sequential identifier (main.py 150-160).                                *)
(***************************************************************************)
\* f'NEV{ano}'
Prefixo(ano) == <<"N", "E", "V">> \o IntToStr(ano)

\* Colaborador.matricula.like(f'NEV{ano}%')
LikePrefixo(m, ano) ==
    LET p == Prefixo(ano) IN Len(m) >= Len(p) /\ SubSeq(m, 1, Len(p)) = p

\* matricula[7:]
Sufixo(m) == SubSeq(m, 8, Len(m))

\* gerar_matricula that continues from the highest suffix of the year
\* instead of the suffix of the row with the highest id
gerar_matricula_MaiorSufixo(colabs, ano, falha, ts) ==
    LET ids   == {i \in 1..Len(colabs) : LikePrefixo(colabs[i].matricula, ano)}
        nums  == {StrToInt(Sufixo(colabs[i].matricula)) : i \in ids}
        maior == CHOOSE n \in nums : \A m \in nums : m <= n
        num   == IF ids # {} THEN maior + 1 ELSE 1
    IN  IF falha THEN Prefixo(ano) \o Fmt04d(ts)
        ELSE Prefixo(ano) \o Fmt04d(num)

\* gerar_matricula over the rows `colabs` in the year `ano`.  `falha` is the
\* environment making the query raise, `ts` the value of
\* int(datetime.now().timestamp()) % 1000 used by the fallback.
gerar_matricula(colabs, ano, falha, ts) ==
    LET ids    == {i \in 1..Len(colabs) : LikePrefixo(colabs[i].matricula, ano)}
        ultimo == CHOOSE i \in ids : \A j \in ids : j <= i
        num    == IF ids # {} THEN StrToInt(Sufixo(colabs[ultimo].matricula)) + 1 ELSE 1
    IN  IF falha THEN Prefixo(ano) \o Fmt04d(ts)
        ELSE Prefixo(ano) \o Fmt04d(num)

(***************************************************************************)
(* The environment: the clock value the fallback of gerar_matricula reads. *)
(* Whether a query, a commit or a log write raises is a BOOLEAN parameter  *)
(* of the action that makes it.                                            *)
(***************************************************************************)
\* int(datetime.now().timestamp()) % 1000 is in 0..999; the model draws a
\* value that collides with a generated suffix
Timestamps == {2}

(***************************************************************************)
(* State.                                                                  *)
(*   colaboradores  table `colaboradores`: a sequence of rows, the row id  *)
(*                  being the position (rows are never deleted)            *)
(*   usuarios       table `usuarios`, likewise                             *)
(*   convites       table `convites`, likewise                             *)
(*   logs_sistema   table `logs_sistema`, likewise                         *)
(*   observacoes    table `observacoes_colaborador`: a sequence of notes   *)
(*                  (a deleted note leaves the sequence)                   *)
(*   session        the web session of each client: a Python dict          *)
(*   pc, req        the request a client has in flight and its locals      *)
(*   resp           the last response each client received                 *)
(*   ano            datetime.now().year                                    *)
(***************************************************************************)
VARIABLES colaboradores, usuarios, convites, logs_sistema, observacoes, session, pc,
          req, resp, ano

vars == <<colaboradores, usuarios, convites, logs_sistema, observacoes, session, pc, req,
          resp, ano>>

\* The clients (browser sessions) of the model.
Sessions == {"s1", "s2"}

\* The steps of the wizard and their session keys, f'colaborador_passo_{passo}'
Passos == 1..5
PassoKey(passo) ==
    <<"colaborador_passo_1", "colaborador_passo_2", "colaborador_passo_3",
      "colaborador_passo_4", "colaborador_passo_5">>[passo]
PassoKeys == {PassoKey(k) : k \in Passos}

(***************************************************************************)
(* Responses.                                                              *)
(***************************************************************************)
MsgCpfInvalido   == "CPF invalido. Por favor, verifique o numero."
MsgCpfDuplicado  == "Erro: Este CPF ja esta cadastrado no sistema."
MsgNome          == "Nome completo e obrigatorio."
MsgEmail         == "Email institucional e obrigatorio."
MsgCelular       == "Celular e obrigatorio."
MsgVinculo       == "Tipo de vinculo e obrigatorio."
MsgDataIngresso  == "Data de ingresso e obrigatoria."
MsgDataInvalida  == "Data de ingresso invalida."
\* f'Erro ao processar cadastro: {str(e)}' for the two kinds of exception a
\* commit raises
MsgErroUnique    == "Erro ao processar cadastro: IntegrityError"
MsgErroConexao   == "Erro ao processar cadastro: OperationalError"
MsgCadastrado    == "Colaborador cadastrado"
MsgPassoSalvo    == "Dados do passo salvos temporariamente"
MsgLogin         == "redirect: login"
MsgDashboard     == "redirect: dashboard"
MsgOk            == "ok"

\* jsonify({...}), status: the response a client sees; id is the record the
\* response links to (0: none)
Resposta(status, message, id) == [status |-> status, message |-> message, id |-> id]

SemResposta == Resposta(0, "", 0)

(***************************************************************************)
(* Access-control gates (main.py 324-340); principal 0 is a client that is *)
(* not authenticated.                                                      *)
(***************************************************************************)
is_authenticated(u) == u # 0

\* a gate that asks for a login and no role
admin_required_QualquerConta(u) == is_authenticated(u)

admin_required(u) ==
    is_authenticated(u) /\ usuarios[u].nivel_acesso \in {"admin", "superadmin"}

superadmin_required(u) ==
    is_authenticated(u) /\ usuarios[u].nivel_acesso = "superadmin"

\* The response of login_required followed by a role gate that refuses u.
Recusa(u) == IF is_authenticated(u) THEN Resposta(302, MsgDashboard, 0)
             ELSE Resposta(302, MsgLogin, 0)

(***************************************************************************)
(* Audit log writer (main.py 170-190).  `ok` is the environment: FALSE     *)
(* makes the insert or its commit raise, and the writer rolls back.        *)
(***************************************************************************)
\* a writer that keeps the latest entry alone
registrar_log_SoUltima(logs, u, acao, modulo, detalhes, ok) ==
    IF ok
    THEN <<[usuario_id |-> u, acao |-> acao, modulo |-> modulo, detalhes |-> detalhes]>>
    ELSE logs

\* a writer whose entry is stored although the write raised
registrar_log_SempreGrava(logs, u, acao, modulo, detalhes, ok) ==
    Append(logs, [usuario_id |-> u, acao |-> acao, modulo |-> modulo,
                  detalhes |-> detalhes])

registrar_log(logs, u, acao, modulo, detalhes, ok) ==
    IF ok
    THEN Append(logs, [usuario_id |-> u, acao |-> acao, modulo |-> modulo,
                       detalhes |-> detalhes])
    ELSE logs

(***************************************************************************)
(* Wizard: save step (main.py 807-853).                                    *)
(***************************************************************************)
\* The fields salvar_passo collects from the form for each step.  Of the
\* optional fields the model carries atende_imprensa and observacoes; the
\* others (nome_social, rg, data_nascimento, whatsapp, the address,
\* departamento, dias_presenciais, tipos_imprensa, assuntos_especializacao,
\* curriculo_lattes, orcid) are copied the same way and take no part in any
\* check.
DadosPasso(passo, form) ==
    CASE passo = 1 -> [nome_completo |-> Get(form, "nome_completo", << >>),
                       cpf |-> Get(form, "cpf", << >>)]
      [] passo = 2 -> [email_institucional |-> Get(form, "email_institucional", << >>),
                       celular |-> Get(form, "celular", << >>)]
      [] passo = 3 -> [tipo_vinculo |-> Get(form, "tipo_vinculo", << >>),
                       data_ingresso |-> Get(form, "data_ingresso", << >>)]
      [] passo = 4 -> [atende_imprensa |-> "atende_imprensa" \in DOMAIN form]
      [] passo = 5 -> [observacoes |-> Get(form, "observacoes", << >>)]
      [] OTHER -> EmptyDict

\* A save that merges: a field the submission leaves empty keeps the value
\* of the earlier save of the same step.
SalvarNaSessao_Mescla(sess, passo, form) ==
    LET novo   == DadosPasso(passo, form)
        antigo == Get(sess, PassoKey(passo), novo)
    IN  Update(sess, [k \in {PassoKey(passo)} |->
            [x \in DOMAIN novo |->
                IF passo # 4 /\ novo[x] = << >> THEN antigo[x] ELSE novo[x]]])

\* session[f'colaborador_passo_{passo}'] = dados
SalvarNaSessao(sess, passo, form) ==
    Update(sess, [k \in {PassoKey(passo)} |-> DadosPasso(passo, form)])

SalvarPasso(s, u, passo, form) ==
    /\ pc[s] = "idle"
    /\ IF admin_required(u)
       THEN /\ session' = [session EXCEPT ![s] = SalvarNaSessao(@, passo, form)]
            /\ resp' = [resp EXCEPT ![s] = Resposta(200, MsgPassoSalvo, 0)]
       ELSE /\ resp' = [resp EXCEPT ![s] = Recusa(u)]
            /\ UNCHANGED session
    /\ UNCHANGED <<colaboradores, usuarios, convites, logs_sistema, pc, req, ano, observacoes>>

(***************************************************************************)
(* Wizard: finalize (main.py 855-991).                                     *)
(***************************************************************************)
\* dados_finais: the five step dicts merged in order (857-861)
DadosFinais(sess) ==
    LET d(k) == Get(sess, PassoKey(k), EmptyDict) IN
    Update(Update(Update(Update(Update(EmptyDict, d(1)), d(2)), d(3)), d(4)), d(5))

\* cpf = formatar_cpf(dados_finais.get('cpf', '').strip())
CpfFinal(dados_finais) == formatar_cpf(strip(Get(dados_finais, "cpf", << >>)))

\* a lookup that leaves the inactive rows out
CpfCadastrado_SoAtivos(colabs, cpf) ==
    \E i \in 1..Len(colabs) : colabs[i].cpf = cpf /\ colabs[i].status = "Ativo"

\* Colaborador.query.filter_by(cpf=cpf).first()
CpfCadastrado(colabs, cpf) == \E i \in 1..Len(colabs) : colabs[i].cpf = cpf

\* The checks of finalize in the order of the code (865-939): the message of
\* the first one that fails, MsgOk when all pass.
\* the checks with the phone asked for before the e-mail
ValidarFinalizar_CelularPrimeiro(dados_finais, colabs) ==
    LET cpf == CpfFinal(dados_finais) IN
    IF ~validar_cpf(cpf) THEN MsgCpfInvalido
    ELSE IF CpfCadastrado(colabs, cpf) THEN MsgCpfDuplicado
    ELSE IF Falsy(dados_finais, "nome_completo") THEN MsgNome
    ELSE IF Falsy(dados_finais, "celular") THEN MsgCelular
    ELSE IF Falsy(dados_finais, "email_institucional") THEN MsgEmail
    ELSE IF Falsy(dados_finais, "tipo_vinculo") THEN MsgVinculo
    ELSE IF Falsy(dados_finais, "data_ingresso") THEN MsgDataIngresso
    ELSE IF ~strptime_ok(dados_finais.data_ingresso) THEN MsgDataInvalida
    ELSE MsgOk

\* the checks with the required fields asked for before the CPF is looked at
ValidarFinalizar_ObrigatoriosPrimeiro(dados_finais, colabs) ==
    LET cpf == CpfFinal(dados_finais) IN
    IF Falsy(dados_finais, "nome_completo") THEN MsgNome
    ELSE IF Falsy(dados_finais, "email_institucional") THEN MsgEmail
    ELSE IF Falsy(dados_finais, "celular") THEN MsgCelular
    ELSE IF Falsy(dados_finais, "tipo_vinculo") THEN MsgVinculo
    ELSE IF Falsy(dados_finais, "data_ingresso") THEN MsgDataIngresso
    ELSE IF ~validar_cpf(cpf) THEN MsgCpfInvalido
    ELSE IF CpfCadastrado(colabs, cpf) THEN MsgCpfDuplicado
    ELSE IF ~strptime_ok(dados_finais.data_ingresso) THEN MsgDataInvalida
    ELSE MsgOk

ValidarFinalizar(dados_finais, colabs) ==
    LET cpf == CpfFinal(dados_finais) IN
    IF ~validar_cpf(cpf) THEN MsgCpfInvalido
    ELSE IF CpfCadastrado(colabs, cpf) THEN MsgCpfDuplicado
    ELSE IF Falsy(dados_finais, "nome_completo") THEN MsgNome
    ELSE IF Falsy(dados_finais, "email_institucional") THEN MsgEmail
    ELSE IF Falsy(dados_finais, "celular") THEN MsgCelular
    ELSE IF Falsy(dados_finais, "tipo_vinculo") THEN MsgVinculo
    ELSE IF Falsy(dados_finais, "data_ingresso") THEN MsgDataIngresso
    ELSE IF ~strptime_ok(dados_finais.data_ingresso) THEN MsgDataInvalida
    ELSE MsgOk

\* dados_db (910-962), for data that passed the checks
DadosDb(dados_finais, u) ==
    [nome_completo       |-> sanitize_input(Get(dados_finais, "nome_completo", << >>), TRUE),
     cpf                 |-> CpfFinal(dados_finais),
     email_institucional |-> lower(sanitize_input(Get(dados_finais, "email_institucional", << >>), FALSE)),
     celular             |-> formatar_telefone(sanitize_input(Get(dados_finais, "celular", << >>), FALSE)),
     tipo_vinculo        |-> Get(dados_finais, "tipo_vinculo", << >>),
     atende_imprensa     |-> Get(dados_finais, "atende_imprensa", FALSE),
     observacoes         |-> sanitize_input(Get(dados_finais, "observacoes", << >>), FALSE),
     status              |-> "Ativo",
     cadastrado_por      |-> u,
     data_ingresso       |-> strptime(dados_finais.data_ingresso)]

\* Room for one more row within the model's bound, counting the inserts that
\* requests in flight may still make.
Cabe == Len(colaboradores) + Cardinality({t \in Sessions : pc[t] # "idle"}) < MaxColab

\* finalize that drops the staged steps when it rejects them
FinalizarValidar_LimpaSessao(s, u) ==
    /\ pc[s] = "idle"
    /\ (admin_required(u) /\ ValidarFinalizar(DadosFinais(session[s]), colaboradores) = MsgOk)
          => Cabe
    /\ IF ~admin_required(u)
       THEN /\ resp' = [resp EXCEPT ![s] = Recusa(u)]
            /\ UNCHANGED <<pc, req, session>>
       ELSE LET dados_finais == DadosFinais(session[s])
                msg == ValidarFinalizar(dados_finais, colaboradores)
            IN  IF msg # MsgOk
                THEN /\ resp' = [resp EXCEPT ![s] = Resposta(400, msg, 0)]
                     /\ session' = [session EXCEPT ![s] = PopAll(@, PassoKeys)]
                     /\ UNCHANGED <<pc, req>>
                ELSE /\ pc' = [pc EXCEPT ![s] = "gerar"]
                     /\ req' = [req EXCEPT ![s] =
                                  [rota |-> "wizard", u |-> u,
                                   dados |-> DadosDb(dados_finais, u)]]
                     /\ UNCHANGED <<resp, session>>
    /\ UNCHANGED <<colaboradores, usuarios, convites, logs_sistema, ano, observacoes>>

\* First part of finalize: the gates, the merge, the checks and dados_db.
\* A rejected request ends here; an accepted one goes on to gerar_matricula.
FinalizarValidar(s, u) ==
    /\ pc[s] = "idle"
    /\ (admin_required(u) /\ ValidarFinalizar(DadosFinais(session[s]), colaboradores) = MsgOk)
          => Cabe
    /\ IF ~admin_required(u)
       THEN /\ resp' = [resp EXCEPT ![s] = Recusa(u)]
            /\ UNCHANGED <<pc, req>>
       ELSE LET dados_finais == DadosFinais(session[s])
                msg == ValidarFinalizar(dados_finais, colaboradores)
            IN  IF msg # MsgOk
                THEN /\ resp' = [resp EXCEPT ![s] = Resposta(400, msg, 0)]
                     /\ UNCHANGED <<pc, req>>
                ELSE /\ pc' = [pc EXCEPT ![s] = "gerar"]
                     /\ req' = [req EXCEPT ![s] =
                                  [rota |-> "wizard", u |-> u,
                                   dados |-> DadosDb(dados_finais, u)]]
                     /\ UNCHANGED resp
    /\ UNCHANGED <<colaboradores, usuarios, convites, logs_sistema, session, ano, observacoes>>

\* dados_db['matricula'] = gerar_matricula() (965, 1064, 2315): the query of
\* the generator is a read of its own, so other requests may commit between
\* the checks above, this read and the commit below.
GerarMatricula(s, falha, ts) ==
    /\ pc[s] = "gerar"
    /\ req' = [req EXCEPT ![s] =
                 Update(@, [matricula |-> gerar_matricula(colaboradores, ano, falha, ts)])]
    /\ pc' = [pc EXCEPT ![s] = "commit"]
    /\ UNCHANGED <<colaboradores, usuarios, convites, logs_sistema, session, resp, ano, observacoes>>

\* The row Colaborador(**dados_db) of a request
Linha(r) == Update(r.dados, [matricula |-> r.matricula])

\* a table without the unique constraint on matricula / on cpf
ViolaUnique_SoCpf(colabs, row) ==
    \E i \in 1..Len(colabs) : colabs[i].cpf = row.cpf
ViolaUnique_SoMatricula(colabs, row) ==
    \E i \in 1..Len(colabs) : colabs[i].matricula = row.matricula

\* The unique constraints of `colaboradores` (main.py 395, 399), as the
\* database applies them to an insert: on the stored text, as it is.
ViolaUnique(colabs, row) ==
    \E i \in 1..Len(colabs) :
        colabs[i].cpf = row.cpf \/ colabs[i].matricula = row.matricula

NoReq == EmptyDict

\* finalize that leaves the staged steps in the session after it commits
FinalizarCommit_SemLimpar(s, falha_db, log_ok) ==
    /\ pc[s] = "commit"
    /\ req[s].rota = "wizard"
    /\ LET row == Update(req[s].dados, [matricula |-> req[s].matricula]) IN
       IF falha_db \/ ViolaUnique(colaboradores, row)
       THEN /\ resp' = [resp EXCEPT ![s] =
                          Resposta(500, IF falha_db THEN MsgErroConexao ELSE MsgErroUnique, 0)]
            /\ UNCHANGED <<colaboradores, logs_sistema>>
       ELSE /\ colaboradores' = Append(colaboradores, row)
            /\ logs_sistema' = registrar_log(logs_sistema, req[s].u,
                                  "Cadastrou colaborador", "Colaboradores",
                                  row.matricula, log_ok)
            /\ resp' = [resp EXCEPT ![s] =
                          Resposta(200, MsgCadastrado, Len(colaboradores) + 1)]
    /\ pc' = [pc EXCEPT ![s] = "idle"]
    /\ req' = [req EXCEPT ![s] = NoReq]
    /\ UNCHANGED <<usuarios, convites, session, ano, observacoes>>

\* finalize that clears the staged steps before it commits
FinalizarCommit_LimpaAntes(s, falha_db, log_ok) ==
    /\ pc[s] = "commit"
    /\ req[s].rota = "wizard"
    /\ session' = [session EXCEPT ![s] = PopAll(@, PassoKeys)]
    /\ LET row == Update(req[s].dados, [matricula |-> req[s].matricula]) IN
       IF falha_db \/ ViolaUnique(colaboradores, row)
       THEN /\ resp' = [resp EXCEPT ![s] =
                          Resposta(500, IF falha_db THEN MsgErroConexao ELSE MsgErroUnique, 0)]
            /\ UNCHANGED <<colaboradores, logs_sistema>>
       ELSE /\ colaboradores' = Append(colaboradores, row)
            /\ logs_sistema' = registrar_log(logs_sistema, req[s].u,
                                  "Cadastrou colaborador", "Colaboradores",
                                  row.matricula, log_ok)
            /\ resp' = [resp EXCEPT ![s] =
                          Resposta(200, MsgCadastrado, Len(colaboradores) + 1)]
    /\ pc' = [pc EXCEPT ![s] = "idle"]
    /\ req' = [req EXCEPT ![s] = NoReq]
    /\ UNCHANGED <<usuarios, convites, ano, observacoes>>

\* db.session.add(colaborador); db.session.commit() and what follows it in
\* finalize (966-991).  falha_db is the environment making the commit raise
\* for a reason of its own (a lost connection); a violated unique constraint
\* raises too.  Either way the except branch rolls back and answers 500, and
\* the session is not touched.  log_ok is the environment of registrar_log.
FinalizarCommit(s, falha_db, log_ok) ==
    /\ pc[s] = "commit"
    /\ req[s].rota = "wizard"
    /\ LET row == Linha(req[s]) IN
       IF falha_db \/ ViolaUnique(colaboradores, row)
       THEN /\ resp' = [resp EXCEPT ![s] =
                          Resposta(500, IF falha_db THEN MsgErroConexao ELSE MsgErroUnique, 0)]
            /\ UNCHANGED <<colaboradores, logs_sistema, session>>
       ELSE /\ colaboradores' = Append(colaboradores, row)
            /\ logs_sistema' = registrar_log(logs_sistema, req[s].u,
                                  "Cadastrou colaborador", "Colaboradores",
                                  row.matricula, log_ok)
            /\ session' = [session EXCEPT ![s] = PopAll(@, PassoKeys)]
            /\ resp' = [resp EXCEPT ![s] =
                          Resposta(200, MsgCadastrado, Len(colaboradores) + 1)]
    /\ pc' = [pc EXCEPT ![s] = "idle"]
    /\ req' = [req EXCEPT ![s] = NoReq]
    /\ UNCHANGED <<usuarios, convites, ano, observacoes>>

(***************************************************************************)
(* Inputs: the texts the clients submit.                                   *)
(***************************************************************************)
(* Create from the plain form, the non-AJAX branch of novo_colaborador     *)
(* (main.py 993-1079).  Its checks differ from finalize: relationship      *)
(* type first, then the CPF, then the join date; name, e-mail and phone    *)
(* are not asked for.  A rejection renders the form again (200) with the   *)
(* message flashed.                                                        *)
(***************************************************************************)
MsgVinculoForm      == "O campo Tipo de Vinculo e obrigatorio."
MsgDataIngressoForm == "O campo Data de Ingresso e obrigatorio."

ValidarForm(form, colabs) ==
    LET cpf == formatar_cpf(strip(Get(form, "cpf", << >>))) IN
    IF Falsy(form, "tipo_vinculo") THEN MsgVinculoForm
    ELSE IF ~validar_cpf(cpf) THEN MsgCpfInvalido
    ELSE IF CpfCadastrado(colabs, cpf) THEN MsgCpfDuplicado
    ELSE IF Falsy(form, "data_ingresso") THEN MsgDataIngressoForm
    ELSE IF ~strptime_ok(form.data_ingresso) THEN MsgDataInvalida
    ELSE MsgOk

\* dados (1010-1061), for a form that passed the checks
DadosForm(form, u) ==
    [nome_completo       |-> sanitize_input(Get(form, "nome_completo", << >>), TRUE),
     cpf                 |-> formatar_cpf(strip(Get(form, "cpf", << >>))),
     email_institucional |-> lower(sanitize_input(Get(form, "email_institucional", << >>), FALSE)),
     celular             |-> formatar_telefone(sanitize_input(Get(form, "celular", << >>), FALSE)),
     tipo_vinculo        |-> form.tipo_vinculo,
     atende_imprensa     |-> "atende_imprensa" \in DOMAIN form,
     observacoes         |-> sanitize_input(Get(form, "observacoes", << >>), FALSE),
     status              |-> "Ativo",
     cadastrado_por      |-> u,
     data_ingresso       |-> strptime(form.data_ingresso)]

FormValidar(s, u, form) ==
    /\ pc[s] = "idle"
    /\ (admin_required(u) /\ ValidarForm(form, colaboradores) = MsgOk) => Cabe
    /\ IF ~admin_required(u)
       THEN /\ resp' = [resp EXCEPT ![s] = Recusa(u)]
            /\ UNCHANGED <<pc, req>>
       ELSE LET msg == ValidarForm(form, colaboradores) IN
            IF msg # MsgOk
            THEN /\ resp' = [resp EXCEPT ![s] = Resposta(200, msg, 0)]
                 /\ UNCHANGED <<pc, req>>
            ELSE /\ pc' = [pc EXCEPT ![s] = "gerar"]
                 /\ req' = [req EXCEPT ![s] =
                              [rota |-> "form", u |-> u, dados |-> DadosForm(form, u)]]
                 /\ UNCHANGED resp
    /\ UNCHANGED <<colaboradores, usuarios, convites, logs_sistema, session, ano, observacoes>>

\* add, commit, log and redirect to the record (1064-1072), or the except
\* branch (1075-1079); the session is not touched
FormCommit(s, falha_db, log_ok) ==
    /\ pc[s] = "commit"
    /\ req[s].rota = "form"
    /\ LET row == Linha(req[s]) IN
       IF falha_db \/ ViolaUnique(colaboradores, row)
       THEN /\ resp' = [resp EXCEPT ![s] =
                          Resposta(200, IF falha_db THEN MsgErroConexao ELSE MsgErroUnique, 0)]
            /\ UNCHANGED <<colaboradores, logs_sistema>>
       ELSE /\ colaboradores' = Append(colaboradores, row)
            /\ logs_sistema' = registrar_log(logs_sistema, req[s].u,
                                  "Cadastrou colaborador", "Colaboradores",
                                  row.matricula, log_ok)
            /\ resp' = [resp EXCEPT ![s] =
                          Resposta(302, MsgCadastrado, Len(colaboradores) + 1)]
    /\ pc' = [pc EXCEPT ![s] = "idle"]
    /\ req' = [req EXCEPT ![s] = NoReq]
    /\ UNCHANGED <<usuarios, convites, session, ano, observacoes>>

(***************************************************************************)
(* Invitations (main.py 509-530, 2161-2219).                               *)
(***************************************************************************)
MsgCpfInvalidoConvite == "CPF invalido."
MsgEmailInvalido      == "Email invalido."
MsgConviteAtivo       == "Ja existe um convite ativo para este CPF."
MsgConviteCriado      == "Convite criado com sucesso"
MsgErroConvite        == "Erro ao criar convite"

\* The character classes of the e-mail pattern, over the model's alphabet
Letras   == {"a", "n", "A", "N", "B"}
LocalCh  == Letras \cup DigitChars \cup {".", "_", "%", "+", "-"}
DomainCh == Letras \cup DigitChars \cup {".", "-"}

\* re.match(r'^[a-zA-Z0-9._%+-]+@[a-zA-Z0-9.-]+\.[a-zA-Z]{2,}$', email)
EmailValido(e) ==
    \E p \in 2..Len(e) : \E q \in (p + 2)..Len(e) :
        /\ e[p] = "@"
        /\ e[q] = "."
        /\ \A i \in 1..(p - 1) : e[i] \in LocalCh
        /\ \A i \in (p + 1)..(q - 1) : e[i] \in DomainCh
        /\ Len(e) - q >= 2
        /\ \A i \in (q + 1)..Len(e) : e[i] \in Letras

\* Convite.is_valido (529-530); `expirado` stands for
\* datetime.utcnow() >= data_expiracao
is_valido(c) == ~c.usado /\ ~c.expirado

\* Convite.query.filter_by(cpf=cpf, usado=False).first(): 0 when none
ConviteExistente(convs, cpf) ==
    LET ids == {i \in 1..Len(convs) : convs[i].cpf = cpf /\ ~convs[i].usado}
    IN  IF ids = {} THEN 0 ELSE CHOOSE i \in ids : \A j \in ids : i <= j

\* The invitation is stored with the CPF as typed (stripped), not formatted;
\* its token is modelled by its position in the table.
\* cap bounds the rows of the table.
ConvidarAte(cap, s, u, form, falha_db, log_ok) ==
    LET cpf   == strip(Get(form, "cpf", << >>))
        email == lower(strip(Get(form, "email", << >>)))
        ex    == ConviteExistente(convites, cpf)
        aceito == /\ admin_required(u) /\ validar_cpf(cpf) /\ EmailValido(email)
                  /\ ~(ex # 0 /\ is_valido(convites[ex]))
    IN
    /\ pc[s] = "idle"
    /\ aceito => Len(convites) < cap
    /\ IF ~admin_required(u)
       THEN /\ resp' = [resp EXCEPT ![s] = Recusa(u)]
            /\ UNCHANGED <<convites, logs_sistema>>
       ELSE IF ~validar_cpf(cpf)
       THEN /\ resp' = [resp EXCEPT ![s] = Resposta(200, MsgCpfInvalidoConvite, 0)]
            /\ UNCHANGED <<convites, logs_sistema>>
       ELSE IF ~EmailValido(email)
       THEN /\ resp' = [resp EXCEPT ![s] = Resposta(200, MsgEmailInvalido, 0)]
            /\ UNCHANGED <<convites, logs_sistema>>
       ELSE IF ex # 0 /\ is_valido(convites[ex])
       THEN /\ resp' = [resp EXCEPT ![s] = Resposta(200, MsgConviteAtivo, 0)]
            /\ UNCHANGED <<convites, logs_sistema>>
       ELSE IF falha_db
       THEN /\ resp' = [resp EXCEPT ![s] = Resposta(200, MsgErroConvite, 0)]
            /\ UNCHANGED <<convites, logs_sistema>>
       ELSE /\ convites' = Append(convites,
                              [cpf |-> cpf, email |-> email, usado |-> FALSE,
                               expirado |-> FALSE, criado_por |-> u])
            /\ logs_sistema' = registrar_log(logs_sistema, u, "Criou convite", "Convites",
                                             cpf, log_ok)
            /\ resp' = [resp EXCEPT ![s] = Resposta(302, MsgConviteCriado, 0)]
    /\ UNCHANGED <<colaboradores, usuarios, session, pc, req, ano, observacoes>>

ConvidarUsuario(s, u, form, falha_db, log_ok) ==
    ConvidarAte(MaxConvites, s, u, form, falha_db, log_ok)

\* Seven days after its creation an invitation is past data_expiracao
PassaPrazo(i) ==
    /\ i \in 1..Len(convites)
    /\ ~convites[i].expirado
    /\ convites' = [convites EXCEPT ![i].expirado = TRUE]
    /\ UNCHANGED <<colaboradores, usuarios, logs_sistema, session, pc, req, resp, ano, observacoes>>

(***************************************************************************)
(* Self-registration (main.py 2235-2374).                                  *)
(***************************************************************************)
MsgConviteExpirado  == "convite expirado"
MsgNaoCorresponde   == "Os dados informados nao correspondem ao convite."
MsgCodigoEnviado    == "Codigo de confirmacao enviado"
MsgAutoCadastro     == "redirect: auto_cadastro"
MsgCodigoIncorreto  == "Codigo de confirmacao incorreto."
MsgConviteInvalido  == "Convite invalido."
MsgErroConfirmar    == "Erro ao processar cadastro. Contate o administrador."

\* auto_cadastro, POST (2235-2273); codigo is the value secrets.token_hex
\* draws
AutoCadastro(s, token, form, codigo) ==
    LET cpf_form   == strip(Get(form, "cpf", << >>))
        email_form == lower(strip(Get(form, "email", << >>)))
    IN
    /\ pc[s] = "idle"
    /\ IF token \notin 1..Len(convites) \/ ~is_valido(convites[token])
       THEN /\ resp' = [resp EXCEPT ![s] = Resposta(404, MsgConviteExpirado, 0)]
            /\ UNCHANGED session
       ELSE IF cpf_form # convites[token].cpf \/ email_form # convites[token].email
       THEN /\ resp' = [resp EXCEPT ![s] = Resposta(200, MsgNaoCorresponde, 0)]
            /\ UNCHANGED session
       ELSE /\ session' = [session EXCEPT ![s] =
                             Update(@, [codigo_confirmacao |-> codigo,
                                        convite_token      |-> token,
                                        cpf                |-> cpf_form,
                                        email              |-> email_form])]
            /\ resp' = [resp EXCEPT ![s] = Resposta(302, MsgCodigoEnviado, 0)]
    /\ UNCHANGED <<colaboradores, usuarios, convites, logs_sistema, pc, req, ano, observacoes>>

NOVO_COLABORADOR == <<"N", "O", "V", "O", " ", "C", "O", "L", "A", "B", "O", "R", "A", "D", "O", "R">>
A_DEFINIR        == <<"A", " ", "D", "E", "F", "I", "N", "I", "R">>

\* date.today(), in the year the identifier generator reads
Hoje == [y |-> ano, m |-> 11, d |-> 1]

\* Colaborador(...) of confirmar_cadastro (2303-2312): the CPF is the text
\* the session holds
DadosAutoCadastro(sess) ==
    [nome_completo       |-> NOVO_COLABORADOR,
     cpf                 |-> sess.cpf,
     email_institucional |-> sess.email,
     celular             |-> << >>,
     tipo_vinculo        |-> A_DEFINIR,
     atende_imprensa     |-> FALSE,
     observacoes         |-> << >>,
     status              |-> "Ativo",
     cadastrado_por      |-> 0,
     data_ingresso       |-> Hoje]

\* confirmar_cadastro, POST, up to the Colaborador object (2277-2312)
ConfirmarValidar(s, codigo) ==
    LET aceito == /\ "codigo_confirmacao" \in DOMAIN session[s]
                  /\ upper(strip(codigo)) = session[s].codigo_confirmacao
                  /\ session[s].convite_token \in 1..Len(convites)
    IN
    /\ pc[s] = "idle"
    /\ aceito => Cabe
    /\ IF "codigo_confirmacao" \notin DOMAIN session[s]
       THEN /\ resp' = [resp EXCEPT ![s] = Resposta(302, MsgAutoCadastro, 0)]
            /\ UNCHANGED <<pc, req>>
       ELSE IF upper(strip(codigo)) # session[s].codigo_confirmacao
       THEN /\ resp' = [resp EXCEPT ![s] = Resposta(200, MsgCodigoIncorreto, 0)]
            /\ UNCHANGED <<pc, req>>
       ELSE IF session[s].convite_token \notin 1..Len(convites)
       THEN /\ resp' = [resp EXCEPT ![s] = Resposta(302, MsgConviteInvalido, 0)]
            /\ UNCHANGED <<pc, req>>
       ELSE /\ pc' = [pc EXCEPT ![s] = "gerar"]
            /\ req' = [req EXCEPT ![s] =
                         [rota |-> "auto", u |-> 0, convite |-> session[s].convite_token,
                          dados |-> DadosAutoCadastro(session[s])]]
            /\ UNCHANGED resp
    /\ UNCHANGED <<colaboradores, usuarios, convites, logs_sistema, session, ano, observacoes>>

\* The first commit of confirmar_cadastro (2298-2318) stores the record and
\* marks the invitation used.  The account is never created: line 2334
\* calls secrets.token_hex, and `secrets` is imported only inside
\* convidar_usuario (2189) and auto_cadastro (2254), so the call raises
\* NameError; the except branch (2367-2370) rolls back, with nothing left
\* to undo, and flashes the error.  The session keeps its four entries.
ConfirmarCommit(s, falha_db) ==
    /\ pc[s] = "commit"
    /\ req[s].rota = "auto"
    /\ LET row == Linha(req[s]) IN
       IF falha_db \/ ViolaUnique(colaboradores, row)
       THEN UNCHANGED <<colaboradores, convites>>
       ELSE /\ colaboradores' = Append(colaboradores, row)
            /\ convites' = [convites EXCEPT ![req[s].convite].usado = TRUE]
    /\ resp' = [resp EXCEPT ![s] = Resposta(200, MsgErroConfirmar, 0)]
    /\ pc' = [pc EXCEPT ![s] = "idle"]
    /\ req' = [req EXCEPT ![s] = NoReq]
    /\ UNCHANGED <<usuarios, logs_sistema, session, ano, observacoes>>

(***************************************************************************)
(* Edit a record (main.py 1099-1186), behind superadmin_required.  The     *)
(* CPF query and the commit are one step here: a row committed between     *)
(* them with the new CPF makes the commit raise, which falha_db covers.    *)
(* Of the columns the model carries, atualizado_por and data_atualizacao   *)
(* are left out.                                                           *)
(***************************************************************************)
MsgNaoEncontrado == "404"
MsgCpfEmUso      == "CPF invalido ou ja em uso."
MsgAtualizado    == "Colaborador atualizado com sucesso!"
MsgErroAtualizar == "Erro ao atualizar colaborador"

\* Colaborador.query.filter(Colaborador.cpf == novo_cpf, Colaborador.id != id).first()
CpfDeOutro(colabs, cpf, id) ==
    \E i \in 1..Len(colabs) : i # id /\ colabs[i].cpf = cpf

EditarColaborador(s, u, id, form, falha_db, log_ok) ==
    LET cpf_form == strip(Get(form, "cpf", << >>))
        novo_cpf == formatar_cpf(cpf_form)
        muda_cpf == cpf_form # << >> /\ novo_cpf # colaboradores[id].cpf
        di       == Get(form, "data_ingresso", << >>)
        \* tipo_vinculo is NOT NULL (423): a form without it makes the commit raise
        falha    == falha_db \/ "tipo_vinculo" \notin DOMAIN form
        editado  ==
            [colaboradores[id] EXCEPT
               !.cpf                 = IF muda_cpf THEN novo_cpf ELSE @,
               !.nome_completo       = sanitize_input(Get(form, "nome_completo", << >>), TRUE),
               !.email_institucional = lower(sanitize_input(Get(form, "email_institucional", << >>), FALSE)),
               !.celular             = formatar_telefone(sanitize_input(Get(form, "celular", << >>), FALSE)),
               !.data_ingresso       = IF di # << >> /\ strptime_ok(di) THEN strptime(di) ELSE @,
               !.tipo_vinculo        = Get(form, "tipo_vinculo", << >>),
               !.atende_imprensa     = "atende_imprensa" \in DOMAIN form,
               !.observacoes         = sanitize_input(Get(form, "observacoes", << >>), FALSE),
               !.status              = Get(form, "status", "Ativo")]
    IN
    /\ pc[s] = "idle"
    /\ (/\ superadmin_required(u) /\ id \in 1..Len(colaboradores) /\ ~falha /\ log_ok
        /\ ~(muda_cpf /\ (~validar_cpf(novo_cpf) \/ CpfDeOutro(colaboradores, novo_cpf, id))))
          => Len(logs_sistema) < MaxLogs
    /\ IF ~superadmin_required(u)
       THEN /\ resp' = [resp EXCEPT ![s] = Recusa(u)]
            /\ UNCHANGED <<colaboradores, logs_sistema>>
       ELSE IF id \notin 1..Len(colaboradores)
       THEN /\ resp' = [resp EXCEPT ![s] = Resposta(404, MsgNaoEncontrado, 0)]
            /\ UNCHANGED <<colaboradores, logs_sistema>>
       ELSE IF muda_cpf /\ (~validar_cpf(novo_cpf) \/ CpfDeOutro(colaboradores, novo_cpf, id))
       THEN /\ resp' = [resp EXCEPT ![s] = Resposta(200, MsgCpfEmUso, 0)]
            /\ UNCHANGED <<colaboradores, logs_sistema>>
       ELSE IF falha
       THEN /\ resp' = [resp EXCEPT ![s] = Resposta(200, MsgErroAtualizar, 0)]
            /\ UNCHANGED <<colaboradores, logs_sistema>>
       ELSE /\ colaboradores' = [colaboradores EXCEPT ![id] = editado]
            /\ logs_sistema' = registrar_log(logs_sistema, u, "Editou colaborador",
                                             "Colaboradores", editado.matricula, log_ok)
            /\ resp' = [resp EXCEPT ![s] = Resposta(302, MsgAtualizado, id)]
    /\ UNCHANGED <<usuarios, convites, session, pc, req, ano, observacoes>>

(***************************************************************************)
(* Soft delete of a record (main.py 1314-1340), behind                     *)
(* superadmin_required.  The columns atualizado_por and data_atualizacao,  *)
(* which it also sets, are not carried by the model.                       *)
(***************************************************************************)
MsgDesativado    == "Colaborador desativado com sucesso!"
MsgErroDesativar == "Erro ao desativar colaborador"

\* a delete that removes the row's notes with it
NotasDepoisDeExcluir_Apaga(obs, id) ==
    SelectSeq(obs, LAMBDA o : o.colaborador_id # id)

\* The notes after the commit of excluir_colaborador: the row is kept, so
\* the delete-orphan cascade of historico_observacoes (507) removes none
NotasDepoisDeExcluir(obs, id) == obs

ExcluirColaborador(s, u, id, falha_db, log_ok) ==
    /\ pc[s] = "idle"
    /\ (superadmin_required(u) /\ id \in 1..Len(colaboradores) /\ ~falha_db /\ log_ok)
          => Len(logs_sistema) < MaxLogs
    /\ IF ~superadmin_required(u)
       THEN /\ resp' = [resp EXCEPT ![s] = Recusa(u)]
            /\ UNCHANGED <<colaboradores, logs_sistema, observacoes>>
       ELSE IF id \notin 1..Len(colaboradores)
       THEN /\ resp' = [resp EXCEPT ![s] = Resposta(404, MsgNaoEncontrado, 0)]
            /\ UNCHANGED <<colaboradores, logs_sistema, observacoes>>
       ELSE IF falha_db
       THEN /\ resp' = [resp EXCEPT ![s] = Resposta(302, MsgErroDesativar, 0)]
            /\ UNCHANGED <<colaboradores, logs_sistema, observacoes>>
       ELSE /\ colaboradores' = [colaboradores EXCEPT ![id].status = "Inativo"]
            /\ observacoes' = NotasDepoisDeExcluir(observacoes, id)
            /\ logs_sistema' = registrar_log(logs_sistema, u, "Desativou colaborador",
                                             "Colaboradores", colaboradores[id].matricula,
                                             log_ok)
            /\ resp' = [resp EXCEPT ![s] = Resposta(302, MsgDesativado, id)]
    /\ UNCHANGED <<usuarios, convites, session, pc, req, ano>>

(***************************************************************************)
(* Notes (main.py 499-507, 1342-1371).  adicionar_observacao is behind     *)
(* login_required alone, excluir_observacao behind superadmin_required.    *)
(* A note's id is one more than the highest id in the table.               *)
(***************************************************************************)
MsgObsAdicionada == "Observacao adicionada!"
MsgObsRemovida   == "Observacao removida e registrada no log."
MsgVerColaborador == "redirect: ver_colaborador"

ProximoIdObs(obs) ==
    IF obs = << >> THEN 1
    ELSE 1 + (CHOOSE n \in {obs[i].id : i \in 1..Len(obs)} :
                 \A i \in 1..Len(obs) : obs[i].id <= n)

\* usuario_nome is the name of the account u
AdicionarObservacao(s, u, id, texto, log_ok) ==
    /\ pc[s] = "idle"
    /\ (is_authenticated(u) /\ texto # << >>)
          => (Len(observacoes) < MaxObs /\ (log_ok => Len(logs_sistema) < MaxLogs))
    /\ IF ~is_authenticated(u)
       THEN /\ resp' = [resp EXCEPT ![s] = Resposta(302, MsgLogin, 0)]
            /\ UNCHANGED <<observacoes, logs_sistema>>
       ELSE IF texto = << >>
       THEN /\ resp' = [resp EXCEPT ![s] = Resposta(302, MsgVerColaborador, id)]
            /\ UNCHANGED <<observacoes, logs_sistema>>
       ELSE /\ observacoes' = Append(observacoes,
                                  [id |-> ProximoIdObs(observacoes), colaborador_id |-> id,
                                   texto |-> sanitize_input(texto, FALSE), usuario |-> u])
            /\ logs_sistema' = registrar_log(logs_sistema, u, "Adicionou observacao",
                                             "Observacoes", texto, log_ok)
            /\ resp' = [resp EXCEPT ![s] = Resposta(302, MsgObsAdicionada, id)]
    /\ UNCHANGED <<colaboradores, usuarios, convites, session, pc, req, ano>>

ExcluirObservacao(s, u, id, log_ok) ==
    LET achadas == {i \in 1..Len(observacoes) : observacoes[i].id = id} IN
    /\ pc[s] = "idle"
    /\ (superadmin_required(u) /\ achadas # {} /\ log_ok) => Len(logs_sistema) < MaxLogs
    /\ IF ~superadmin_required(u)
       THEN /\ resp' = [resp EXCEPT ![s] = Recusa(u)]
            /\ UNCHANGED <<observacoes, logs_sistema>>
       ELSE IF achadas = {}
       THEN /\ resp' = [resp EXCEPT ![s] = Resposta(404, MsgNaoEncontrado, 0)]
            /\ UNCHANGED <<observacoes, logs_sistema>>
       ELSE LET i == CHOOSE i \in achadas : TRUE IN
            /\ observacoes' = SelectSeq(observacoes, LAMBDA o : o.id # id)
            /\ logs_sistema' = registrar_log(logs_sistema, u, "Excluiu observacao",
                                             "Observacoes", observacoes[i].texto, log_ok)
            /\ resp' = [resp EXCEPT ![s] =
                          Resposta(302, MsgObsRemovida, observacoes[i].colaborador_id)]
    /\ UNCHANGED <<colaboradores, usuarios, convites, session, pc, req, ano>>

(***************************************************************************)
(* New account (main.py 2021-2079), behind superadmin_required.            *)
(***************************************************************************)
MsgCamposUsuario  == "Todos os campos obrigatorios devem ser preenchidos."
MsgSenhasDiferem  == "As senhas nao coincidem."
MsgSenhaCurta     == "A senha deve ter pelo menos 8 caracteres."
MsgUsernameEmUso  == "Nome de usuario ja esta em uso."
MsgEmailEmUso     == "Email ja esta cadastrado."
MsgUsuarioCriado  == "Usuario cadastrado com sucesso!"
MsgErroUsuario    == "Erro ao cadastrar usuario"

\* The checks of novo_usuario in their order (2034-2052)
ValidarUsuario(form, users) ==
    LET username == lower(sanitize_input(Get(form, "username", << >>), FALSE))
        nome     == sanitize_input(Get(form, "nome_completo", << >>), FALSE)
        email    == lower(sanitize_input(Get(form, "email", << >>), FALSE))
        senha    == Get(form, "senha", << >>)
    IN  IF username = << >> \/ nome = << >> \/ email = << >> THEN MsgCamposUsuario
        ELSE IF senha # Get(form, "confirmar_senha", << >>) THEN MsgSenhasDiferem
        ELSE IF Len(senha) < 8 THEN MsgSenhaCurta
        ELSE IF \E i \in 1..Len(users) : users[i].username = username THEN MsgUsernameEmUso
        ELSE IF \E i \in 1..Len(users) : users[i].email = email THEN MsgEmailEmUso
        ELSE MsgOk

NovoUsuario(s, u, form, falha_db, log_ok) ==
    LET msg == ValidarUsuario(form, usuarios)
        usuario == [username     |-> lower(sanitize_input(form.username, FALSE)),
                    email        |-> lower(sanitize_input(form.email, FALSE)),
                    nivel_acesso |-> Get(form, "nivel_acesso", "colaborador"),
                    ativo        |-> TRUE,
                    ultimo_login |-> 0]
    IN
    /\ pc[s] = "idle"
    /\ (superadmin_required(u) /\ msg = MsgOk /\ ~falha_db)
          => Len(usuarios) < MaxUsuarios
    /\ IF ~superadmin_required(u)
       THEN /\ resp' = [resp EXCEPT ![s] = Recusa(u)]
            /\ UNCHANGED <<usuarios, logs_sistema>>
       ELSE IF msg # MsgOk
       THEN /\ resp' = [resp EXCEPT ![s] = Resposta(200, msg, 0)]
            /\ UNCHANGED <<usuarios, logs_sistema>>
       ELSE IF falha_db
       THEN /\ resp' = [resp EXCEPT ![s] = Resposta(200, MsgErroUsuario, 0)]
            /\ UNCHANGED <<usuarios, logs_sistema>>
       ELSE /\ usuarios' = Append(usuarios, usuario)
            /\ logs_sistema' = registrar_log(logs_sistema, u, "Cadastrou usuario",
                                             "Usuarios", usuario.email, log_ok)
            /\ resp' = [resp EXCEPT ![s] = Resposta(302, MsgUsuarioCriado, Len(usuarios) + 1)]
    /\ UNCHANGED <<colaboradores, convites, observacoes, session, pc, req, ano>>

(***************************************************************************)
(* The page that completes a self-registration (main.py 2376-2393),        *)
(* behind login_required and unico_required (342-357).                     *)
(***************************************************************************)
MsgProprioPerfil   == "Voce so pode acessar seu proprio perfil."
MsgNaoAutorizado   == "Acesso nao autorizado."
MsgProprioCadastro == "Voce so pode editar seu proprio cadastro."
MsgCompletar       == "completar_cadastro.html"

\* unico_required: a principal of role 'unico' passes only when the id of
\* the route equals the id of its own account
unico_required(u, id) ==
    is_authenticated(u) /\ (usuarios[u].nivel_acesso = "unico" => id = u)

CompletarCadastro(s, u, id) ==
    /\ pc[s] = "idle"
    /\ resp' = [resp EXCEPT ![s] =
          IF ~is_authenticated(u) THEN Resposta(302, MsgLogin, 0)
          ELSE IF ~unico_required(u, id) THEN Resposta(302, MsgProprioPerfil, 0)
          ELSE IF id \notin 1..Len(colaboradores) THEN Resposta(404, MsgNaoEncontrado, 0)
          ELSE IF usuarios[u].nivel_acesso # "unico" THEN Resposta(302, MsgNaoAutorizado, 0)
          ELSE IF lower(usuarios[u].email) # lower(colaboradores[id].email_institucional)
          THEN Resposta(302, MsgProprioCadastro, 0)
          ELSE Resposta(200, MsgCompletar, id)]
    /\ UNCHANGED <<colaboradores, usuarios, convites, logs_sistema, observacoes, session,
                   pc, req, ano>>

(***************************************************************************)
(* Login (main.py 555-597).  login_user keeps the id of the account in the *)
(* session under '_user_id'; load_user reads the row of that id back on    *)
(* each request and does not look at `ativo`, and login_required asks only *)
(* for an authenticated principal.  senha_confere is check_password, the   *)
(* hash not being carried; of utcnow() the year is kept, 0 standing for no *)
(* login yet.                                                              *)
(***************************************************************************)
MsgUsuarioDesativado == "Usuario desativado. Contate o administrador."
MsgLoginOk           == "Login realizado com sucesso!"
MsgLoginIncorreto    == "Usuario ou senha incorretos"

\* current_user: load_user(session['_user_id']), 0 when anonymous
current_user(s) ==
    LET id == Get(session[s], "_user_id", 0) IN
    IF id \in 1..Len(usuarios) THEN id ELSE 0

\* User.query.filter_by(username=username).first(): 0 when none
UsuarioDeNome(users, username) ==
    LET ids == {i \in 1..Len(users) : users[i].username = username}
    IN  IF ids = {} THEN 0 ELSE CHOOSE i \in ids : \A j \in ids : i <= j

Login(s, form_username, senha_confere, log_ok) ==
    LET user == UsuarioDeNome(usuarios, lower(strip(form_username))) IN
    /\ pc[s] = "idle"
    /\ (current_user(s) = 0 /\ log_ok /\ ~(user # 0 /\ senha_confere /\ ~usuarios[user].ativo))
          => Len(logs_sistema) < MaxLogs
    /\ IF current_user(s) # 0
       THEN /\ resp' = [resp EXCEPT ![s] = Resposta(302, MsgDashboard, 0)]
            /\ UNCHANGED <<usuarios, logs_sistema, session>>
       ELSE IF user # 0 /\ senha_confere
       THEN IF ~usuarios[user].ativo
            THEN /\ resp' = [resp EXCEPT ![s] = Resposta(200, MsgUsuarioDesativado, 0)]
                 /\ UNCHANGED <<usuarios, logs_sistema, session>>
            ELSE /\ session' = [session EXCEPT ![s] = Update(@, [k \in {"_user_id"} |-> user])]
                 /\ usuarios' = [usuarios EXCEPT ![user].ultimo_login = ano]
                 /\ logs_sistema' = registrar_log(logs_sistema, user, "Login realizado",
                                                  "Autenticacao", << >>, log_ok)
                 /\ resp' = [resp EXCEPT ![s] = Resposta(302, MsgLoginOk, user)]
       ELSE /\ logs_sistema' = registrar_log(logs_sistema, 0, "Tentativa de login falhou",
                                             "Autenticacao", << >>, log_ok)
            /\ resp' = [resp EXCEPT ![s] = Resposta(200, MsgLoginIncorreto, 0)]
            /\ UNCHANGED <<usuarios, session>>
    /\ UNCHANGED <<colaboradores, convites, observacoes, pc, req, ano>>

(***************************************************************************)
(* Edit an account (main.py 2081-2126), behind superadmin_required.  The   *)
(* e-mail, the role and `ativo` are assigned from the form before any      *)
(* check; `ativo` is the presence of the field.  The test for an e-mail in *)
(* use compares the e-mail just assigned with itself and never runs: a     *)
(* duplicate makes the commit raise.                                       *)
(***************************************************************************)
MsgNovasSenhasDiferem == "As novas senhas nao coincidem."
MsgUsuarioAtualizado  == "Usuario atualizado com sucesso!"
MsgErroEditarUsuario  == "Erro ao atualizar usuario"

EditarUsuario(s, u, id, form, falha_db, log_ok) ==
    LET email      == lower(sanitize_input(Get(form, "email", << >>), FALSE))
        nova_senha == Get(form, "nova_senha", << >>)
        repetido   == \E j \in 1..Len(usuarios) : j # id /\ usuarios[j].email = email
        passa      == /\ superadmin_required(u) /\ id \in 1..Len(usuarios)
                      /\ (nova_senha # << >>
                            => /\ nova_senha = Get(form, "confirmar_senha", << >>)
                               /\ Len(nova_senha) >= 8)
                      /\ ~falha_db /\ ~repetido
    IN
    /\ pc[s] = "idle"
    /\ (passa /\ log_ok) => Len(logs_sistema) < MaxLogs
    /\ IF ~superadmin_required(u)
       THEN /\ resp' = [resp EXCEPT ![s] = Recusa(u)]
            /\ UNCHANGED <<usuarios, logs_sistema>>
       ELSE IF id \notin 1..Len(usuarios)
       THEN /\ resp' = [resp EXCEPT ![s] = Resposta(404, MsgNaoEncontrado, 0)]
            /\ UNCHANGED <<usuarios, logs_sistema>>
       ELSE IF nova_senha # << >> /\ nova_senha # Get(form, "confirmar_senha", << >>)
       THEN /\ resp' = [resp EXCEPT ![s] = Resposta(200, MsgNovasSenhasDiferem, 0)]
            /\ UNCHANGED <<usuarios, logs_sistema>>
       ELSE IF nova_senha # << >> /\ Len(nova_senha) < 8
       THEN /\ resp' = [resp EXCEPT ![s] = Resposta(200, MsgSenhaCurta, 0)]
            /\ UNCHANGED <<usuarios, logs_sistema>>
       ELSE IF falha_db \/ repetido
       THEN /\ resp' = [resp EXCEPT ![s] = Resposta(200, MsgErroEditarUsuario, 0)]
            /\ UNCHANGED <<usuarios, logs_sistema>>
       ELSE /\ usuarios' = [usuarios EXCEPT ![id] =
                               [@ EXCEPT !.email = email,
                                         !.nivel_acesso = Get(form, "nivel_acesso", "colaborador"),
                                         !.ativo = "ativo" \in DOMAIN form]]
            /\ logs_sistema' = registrar_log(logs_sistema, u, "Editou usuario", "Usuarios",
                                             email, log_ok)
            /\ resp' = [resp EXCEPT ![s] = Resposta(302, MsgUsuarioAtualizado, id)]
    /\ UNCHANGED <<colaboradores, convites, observacoes, session, pc, req, ano>>

(***************************************************************************)
(* Own profile (main.py 2435-2483), behind login_required alone.  Of the   *)
(* columns it writes the model carries the e-mail; nome_completo and the   *)
(* password hash are not carried.  No audit entry is written.              *)
(***************************************************************************)
MsgPerfilObrigatorio == "Nome completo e email sao obrigatorios."
MsgEmailPerfilEmUso  == "Este email ja esta em uso por outro usuario."
MsgSenhaCurtaPerfil  == "A senha deve ter pelo menos 6 caracteres."
MsgPerfilAtualizado  == "Perfil atualizado com sucesso!"
MsgErroPerfil        == "Erro ao atualizar perfil"

\* The checks of meu_perfil in their order (2445-2467)
ValidarPerfil(form, users, u) ==
    LET nome       == sanitize_input(Get(form, "nome_completo", << >>), FALSE)
        email      == lower(sanitize_input(Get(form, "email", << >>), FALSE))
        nova_senha == Get(form, "nova_senha", << >>)
    IN  IF nome = << >> \/ email = << >> THEN MsgPerfilObrigatorio
        ELSE IF email # users[u].email
                /\ \E i \in 1..Len(users) : i # u /\ users[i].email = email
             THEN MsgEmailPerfilEmUso
        ELSE IF nova_senha # << >> /\ Len(nova_senha) < 6 THEN MsgSenhaCurtaPerfil
        ELSE IF nova_senha # << >> /\ nova_senha # Get(form, "confirmar_senha", << >>)
             THEN MsgSenhasDiferem
        ELSE MsgOk

MeuPerfil(s, u, form, falha_db) ==
    LET msg == ValidarPerfil(form, usuarios, u) IN
    /\ pc[s] = "idle"
    /\ IF ~is_authenticated(u)
       THEN /\ resp' = [resp EXCEPT ![s] = Resposta(302, MsgLogin, 0)]
            /\ UNCHANGED usuarios
       ELSE IF msg # MsgOk
       THEN /\ resp' = [resp EXCEPT ![s] = Resposta(302, msg, 0)]
            /\ UNCHANGED usuarios
       ELSE IF falha_db
       THEN /\ resp' = [resp EXCEPT ![s] = Resposta(302, MsgErroPerfil, 0)]
            /\ UNCHANGED usuarios
       ELSE /\ usuarios' = [usuarios EXCEPT
                               ![u].email = lower(sanitize_input(form.email, FALSE))]
            /\ resp' = [resp EXCEPT ![s] = Resposta(302, MsgPerfilAtualizado, u)]
    /\ UNCHANGED <<colaboradores, convites, logs_sistema, observacoes, session, pc, req, ano>>

(***************************************************************************)
(* The inputs the clients send.                                            *)
(***************************************************************************)
\* 529.982.247-25, a valid CPF, typed without and with punctuation
CPF_A     == <<"5", "2", "9", "9", "8", "2", "2", "4", "7", "2", "5">>
CPF_A_FMT == <<"5", "2", "9", ".", "9", "8", "2", ".", "2", "4", "7", "-", "2", "5">>
\* 111.444.777-35, another valid CPF
CPF_B_FMT == <<"1", "1", "1", ".", "4", "4", "4", ".", "7", "7", "7", "-", "3", "5">>
\* 529.982.247-26: a wrong second check digit
CPF_RUIM  == <<"5", "2", "9", ".", "9", "8", "2", ".", "2", "4", "7", "-", "2", "6">>

NOME      == <<"a", "n", "a">>
EMAIL     == <<"A", "@", "n">>
CELULAR   == <<"1", "1", "9", "8", "7", "6", "5", "4", "3", "2", "1">>
VINCULO   == <<"B">>
\* 2026-01-15, and 2026-02-30, which is no date
DATA_OK   == <<"2", "0", "2", "6", "-", "0", "1", "-", "1", "5">>
DATA_RUIM == <<"2", "0", "2", "6", "-", "0", "2", "-", "3", "0">>

\* The forms of a client that fills in every required field; the CPF is one
\* of two people's, the first typed without or with punctuation.
FormsCompletos(passo) ==
    CASE passo = 1 -> {[nome_completo |-> NOME, cpf |-> c] :
                          c \in {CPF_A, CPF_A_FMT, CPF_B_FMT}}
      [] passo = 2 -> {[email_institucional |-> EMAIL, celular |-> CELULAR]}
      [] passo = 3 -> {[tipo_vinculo |-> VINCULO, data_ingresso |-> DATA_OK]}
      [] passo = 4 -> {[atende_imprensa |-> <<"o", "n">>]}
      [] passo = 5 -> {[observacoes |-> << >>]}

\* a@n.na, an address the invitation pattern accepts (EMAIL lacks the dot)
EMAIL_OK  == <<"a", "@", "n", ".", "n", "a">>
\* The confirmation code drawn for a self-registration, and what is typed
CODIGO      == <<"A", "1">>
CODIGO_min  == <<"a", "1">>
CODIGO_RUIM == <<"1">>

\* The plain form: either person, or the relationship type left out
FormsPlanos ==
    {[cpf |-> c, tipo_vinculo |-> VINCULO, data_ingresso |-> DATA_OK] :
        c \in {CPF_A, CPF_B_FMT}}
    \cup {[cpf |-> CPF_B_FMT, tipo_vinculo |-> << >>, data_ingresso |-> DATA_OK]}

\* The invitation form: the first person's CPF typed without or with
\* punctuation, or an address the pattern refuses
FormsConvite ==
    {[cpf |-> c, email |-> EMAIL_OK] : c \in {CPF_A, CPF_A_FMT}}
    \cup {[cpf |-> CPF_A, email |-> EMAIL]}

\* The edit form: the CPF left as it is, changed to either person's, or
\* one that fails the checksum
FormsEdicao ==
    {[cpf |-> c, nome_completo |-> NOME, email_institucional |-> EMAIL,
      celular |-> CELULAR, tipo_vinculo |-> VINCULO, atende_imprensa |-> <<"o", "n">>,
      status |-> "Ativo"] :
        c \in {<< >>, CPF_A, CPF_B_FMT, CPF_RUIM}}

\* The edit form with the status field as a client can post it: either
\* option of the page, or another text
FormsEdicaoStatus ==
    {[cpf |-> << >>, nome_completo |-> NOME, email_institucional |-> EMAIL,
      celular |-> CELULAR, tipo_vinculo |-> VINCULO, status |-> st] :
        st \in {"Ativo", "Inativo", "Pendente"}}

\* The forms of each wizard step with fields left empty, a CPF that fails
\* the checksum and a join date that is no date.
FormsQuaisquer(passo) ==
    CASE passo = 1 -> {[nome_completo |-> n, cpf |-> c] :
                          n \in {<< >>, NOME}, c \in {CPF_A_FMT, CPF_RUIM}}
      [] passo = 2 -> {[email_institucional |-> e, celular |-> c] :
                          e \in {<< >>, EMAIL}, c \in {<< >>, CELULAR}}
      [] passo = 3 -> {[tipo_vinculo |-> v, data_ingresso |-> d] :
                          v \in {<< >>, VINCULO}, d \in {<< >>, DATA_OK, DATA_RUIM}}
      [] passo = 4 -> {EmptyDict}
      [] passo = 5 -> {[observacoes |-> << >>]}

\* The new-account form: an account of role 'unico', and the same with a
\* password of one character
SENHA == <<"a", "a", "a", "a", "a", "a", "a", "a">>
FormsUsuario ==
    {[username |-> <<"A", "n">>, nome_completo |-> NOME, email |-> EMAIL_OK,
      nivel_acesso |-> "unico", senha |-> p, confirmar_senha |-> p] :
        p \in {SENHA, <<"a">>}}

\* The text of a note, or none
TextosObs == {<< >>, <<"a">>}

(***************************************************************************)
(* Initial state: the database init_db leaves (main.py 3019-3091), one     *)
(* account `admin` with role 'admin', and clients with empty sessions.     *)
(***************************************************************************)
AdminInicial ==
    [username |-> <<"a", "d", "m", "i", "n">>,
     email |-> <<"a", "d", "m", "i", "n", "@", "n", "e", "v", ".", "u", "s", "p", ".", "b", "r">>,
     nivel_acesso |-> "admin",
     ativo |-> TRUE,
     ultimo_login |-> 0]

Init ==
    /\ colaboradores = << >>
    /\ usuarios = <<AdminInicial>>
    /\ convites = << >>
    /\ logs_sistema = << >>
    /\ observacoes = << >>
    /\ session = [s \in Sessions |-> EmptyDict]
    /\ pc = [s \in Sessions |-> "idle"]
    /\ req = [s \in Sessions |-> NoReq]
    /\ resp = [s \in Sessions |-> SemResposta]
    /\ ano = 2026

\* An account with role 'superadmin'.  No route creates one (novo_usuario
\* and editar_usuario are themselves behind superadmin_required, and init_db
\* creates `admin` only): it is a row put into `usuarios` at deployment.
SuperAdmin ==
    [username |-> <<"r", "o", "o", "t">>,
     email |-> <<"r", "o", "o", "t", "@", "n", "e", "v", ".", "u", "s", "p", ".", "b", "r">>,
     nivel_acesso |-> "superadmin",
     ativo |-> TRUE,
     ultimo_login |-> 0]

\* The profile form: a new address, the address of the superadministrator,
\* no address; with no new password, a new one, or one of one character
FormsPerfil ==
    {[nome_completo |-> NOME, email |-> e, nova_senha |-> p, confirmar_senha |-> p] :
        e \in {<< >>, EMAIL_OK, SuperAdmin.email}, p \in {<< >>, SENHA, <<"a">>}}

InitRegistro ==
    /\ colaboradores = << >>
    /\ usuarios = <<AdminInicial, SuperAdmin>>
    /\ convites = << >>
    /\ logs_sistema = << >>
    /\ observacoes = << >>
    /\ session = [s \in Sessions |-> EmptyDict]
    /\ pc = [s \in Sessions |-> "idle"]
    /\ req = [s \in Sessions |-> NoReq]
    /\ resp = [s \in Sessions |-> SemResposta]
    /\ ano = 2026

(***************************************************************************)
(* Spec: two clients of the administrator run the wizard concurrently,     *)
(* each request interleaving with the other's at its database accesses.    *)
(* The clients follow the wizard page: the steps are saved in order, a     *)
(* client goes back only to step 1 (to correct the CPF), and finalize is   *)
(* sent from the last step.                                                *)
(***************************************************************************)
EmOrdem(s, k) ==
    /\ k = 1 \/ PassoKey(k) \notin DOMAIN session[s]
    /\ \A j \in 1..(k - 1) : PassoKey(j) \in DOMAIN session[s]

Completo(s) == PassoKeys \subseteq DOMAIN session[s]

Next ==
    \/ \E s \in Sessions, k \in Passos : \E f \in FormsCompletos(k) :
          EmOrdem(s, k) /\ SalvarPasso(s, 1, k, f)
    \/ \E s \in Sessions : Completo(s) /\ FinalizarValidar(s, 1)
    \/ \E s \in Sessions, falha \in BOOLEAN, ts \in Timestamps : GerarMatricula(s, falha, ts)
    \/ \E s \in Sessions, falha_db \in BOOLEAN, log_ok \in BOOLEAN :
          FinalizarCommit(s, falha_db, log_ok)

Spec == Init /\ [][Next]_vars

(***************************************************************************)
(* SpecValidacao: one client runs the wizard with arbitrary form input, in *)
(* any order, authenticated as the administrator or not at all.            *)
(***************************************************************************)
NextValidacao ==
    \/ \E u \in {0, 1}, k \in Passos : \E f \in FormsQuaisquer(k) : SalvarPasso("s1", u, k, f)
    \/ \E u \in {0, 1} : FinalizarValidar("s1", u)
    \/ \E falha \in BOOLEAN, ts \in Timestamps : GerarMatricula("s1", falha, ts)
    \/ \E falha_db \in BOOLEAN, log_ok \in BOOLEAN : FinalizarCommit("s1", falha_db, log_ok)

SpecValidacao == Init /\ [][NextValidacao]_vars

(***************************************************************************)
(* SpecCriacao: the routes besides the wizard that create a record.        *)
(* Client s1 is the staff browser (the administrator, account 1, sends the *)
(* plain form and the invitations); client s2 is the browser of the        *)
(* invited person, not logged in.  Requests of the two interleave at their *)
(* database accesses.  The wizard's finalize makes the same queries and    *)
(* the same commit as the plain form; its interleavings are Spec's.        *)
(***************************************************************************)
NextCriacao ==
    \/ \E f \in FormsPlanos : FormValidar("s1", 1, f)
    \/ \E s \in Sessions, falha \in BOOLEAN, ts \in Timestamps : GerarMatricula(s, falha, ts)
    \/ \E falha_db \in BOOLEAN : FormCommit("s1", falha_db, TRUE)
    \/ \E f \in FormsConvite : ConvidarUsuario("s1", 1, f, FALSE, TRUE)
    \/ \E token \in 1..MaxConvites, f \in FormsConvite :
          AutoCadastro("s2", token, f, CODIGO)
    \/ \E codigo \in {CODIGO_min, CODIGO_RUIM} : ConfirmarValidar("s2", codigo)
    \/ \E falha_db \in BOOLEAN : ConfirmarCommit("s2", falha_db)

SpecCriacao == InitRegistro /\ [][NextCriacao]_vars

(***************************************************************************)
(* SpecRegistro: SpecCriacao with the edits of the superadministrator      *)
(* (account 2, from the staff browser) and the expiry of invitations:      *)
(* every route besides the wizard that stores or changes a record's CPF.   *)
(***************************************************************************)
NextRegistro ==
    \/ \E f \in FormsPlanos : FormValidar("s1", 1, f)
    \/ \E s \in Sessions, falha \in BOOLEAN, ts \in Timestamps : GerarMatricula(s, falha, ts)
    \/ \E falha_db \in BOOLEAN : FormCommit("s1", falha_db, TRUE)
    \/ \E f \in FormsConvite : ConvidarUsuario("s1", 1, f, FALSE, TRUE)
    \/ \E i \in 1..MaxConvites : PassaPrazo(i)
    \/ \E token \in 1..MaxConvites, f \in FormsConvite :
          AutoCadastro("s2", token, f, CODIGO)
    \/ \E codigo \in {CODIGO_min, CODIGO_RUIM} : ConfirmarValidar("s2", codigo)
    \/ \E falha_db \in BOOLEAN : ConfirmarCommit("s2", falha_db)
    \/ \E id \in 1..MaxColab, f \in FormsEdicao :
          EditarColaborador("s1", 2, id, f, FALSE, TRUE)

SpecRegistro == InitRegistro /\ [][NextRegistro]_vars

(***************************************************************************)
(* SpecMatricula: gerar_matricula applied to stored tables.  The initial   *)
(* state is a plain-form request of the administrator that passed its      *)
(* checks, over a table of up to MaxColab rows stored earlier: rows of the *)
(* year before, rows of this year whose order of suffixes is not the order *)
(* of their ids (an identifier of the fallback is followed by a counted    *)
(* one), and the suffix 9999.                                              *)
(***************************************************************************)
\* 123.456.789-09, 168.995.350-09, 935.411.347-80: the CPFs of the stored rows
CpfsAntigos ==
    <<<<"1","2","3",".","4","5","6",".","7","8","9","-","0","9">>,
      <<"1","6","8",".","9","9","5",".","3","5","0","-","0","9">>,
      <<"9","3","5",".","4","1","1",".","3","4","7","-","8","0">>>>

MatriculasAntigas ==
    {Prefixo(p[1]) \o Fmt04d(p[2]) :
        p \in {<<2025, 3>>, <<2026, 1>>, <<2026, 7>>, <<2026, 9>>, <<2026, 9999>>}}

\* unique=True on matricula (main.py 395): a stored table repeats none
SemRepetir(t) == \A i, j \in 1..Len(t) : i # j => t[i].matricula # t[j].matricula

\* A row stored by an earlier request
LinhaAntiga(i, m) ==
    Update(DadosForm([cpf |-> CpfsAntigos[i], tipo_vinculo |-> VINCULO,
                      data_ingresso |-> DATA_OK], 1),
           [matricula |-> m])

RECURSIVE TabelasAntigas(_)
TabelasAntigas(n) ==
    IF n = 0 THEN {<< >>}
    ELSE LET menores == TabelasAntigas(n - 1) IN
         menores \cup
         {Append(t, LinhaAntiga(n, m)) :
             t \in {x \in menores : Len(x) = n - 1},
             m \in MatriculasAntigas} 

InitMatricula ==
    /\ colaboradores \in {t \in TabelasAntigas(MaxColab) : SemRepetir(t)}
    /\ usuarios = <<AdminInicial>>
    /\ convites = << >>
    /\ logs_sistema = << >>
    /\ observacoes = << >>
    /\ session = [s \in Sessions |-> EmptyDict]
    /\ pc = [s \in Sessions |-> IF s = "s1" THEN "gerar" ELSE "idle"]
    /\ req = [s \in Sessions |->
                IF s = "s1"
                THEN [rota |-> "form", u |-> 1,
                      dados |-> DadosForm([cpf |-> CPF_A, tipo_vinculo |-> VINCULO,
                                           data_ingresso |-> DATA_OK], 1)]
                ELSE NoReq]
    /\ resp = [s \in Sessions |-> SemResposta]
    /\ ano = 2026

NextMatricula ==
    \/ \E falha \in BOOLEAN, ts \in Timestamps : GerarMatricula("s1", falha, ts)
    \/ \E falha_db \in BOOLEAN : FormCommit("s1", falha_db, TRUE)

SpecMatricula == InitMatricula /\ [][NextMatricula]_vars

(***************************************************************************)
(* SpecGestao: the staff browser s1 creates records through the plain form *)
(* and adds notes (administrator, account 1) and creates an account of     *)
(* role 'unico' (superadministrator, account 2); the browser s2 sends      *)
(* requests to every gated handler as a principal the gate is to refuse:   *)
(* nobody (0), the account of role 'unico' once it exists, and the         *)
(* administrator where the gate asks for the superadministrator.           *)
(***************************************************************************)
Contas == {u \in 0..MaxUsuarios : u <= Len(usuarios)}
Papel(u) == IF u = 0 THEN "" ELSE usuarios[u].nivel_acesso
ForaDeAdmin == {u \in Contas : Papel(u) \notin {"admin", "superadmin"}}
ForaDeSuperadmin == {u \in Contas : Papel(u) # "superadmin"}

NextGestao ==
    \/ \E f \in FormsPlanos : FormValidar("s1", 1, f)
    \/ \E falha \in BOOLEAN, ts \in Timestamps : GerarMatricula("s1", falha, ts)
    \/ \E falha_db \in BOOLEAN : FormCommit("s1", falha_db, TRUE)
    \/ \E f \in FormsUsuario, falha_db \in BOOLEAN : NovoUsuario("s1", 2, f, falha_db, TRUE)
    \/ \E id \in 1..MaxColab, t \in TextosObs :
          id <= Len(colaboradores) /\ AdicionarObservacao("s1", 1, id, t, TRUE)
    \/ \E u \in ForaDeAdmin, k \in Passos :
          \E f \in FormsCompletos(k) : SalvarPasso("s2", u, k, f)
    \/ \E u \in ForaDeAdmin : FinalizarValidar("s2", u)
    \/ \E u \in ForaDeAdmin, f \in FormsPlanos : FormValidar("s2", u, f)
    \/ \E u \in ForaDeAdmin, f \in FormsConvite : ConvidarUsuario("s2", u, f, FALSE, TRUE)
    \/ \E u \in ForaDeSuperadmin, id \in 1..MaxColab, f \in FormsEdicao :
          EditarColaborador("s2", u, id, f, FALSE, TRUE)
    \/ \E u \in ForaDeSuperadmin, id \in 1..MaxColab :
          ExcluirColaborador("s2", u, id, FALSE, TRUE)
    \/ \E u \in ForaDeSuperadmin, id \in 1..MaxObs : ExcluirObservacao("s2", u, id, TRUE)
    \/ \E u \in ForaDeSuperadmin, f \in FormsUsuario : NovoUsuario("s2", u, f, FALSE, TRUE)

SpecGestao == InitRegistro /\ [][NextGestao]_vars

(***************************************************************************)
(* SpecExclusao: the administrator (account 1) creates records through the *)
(* plain form in the browser s1; in the browser s2 the superadministrator  *)
(* (account 2) soft deletes records and removes notes, and the             *)
(* administrator adds notes.  The commits and the writes of the audit log  *)
(* may raise.                                                              *)
(***************************************************************************)
NextExclusao ==
    \/ \E f \in FormsPlanos : FormValidar("s1", 1, f)
    \/ \E ts \in Timestamps : GerarMatricula("s1", FALSE, ts)
    \/ \E log_ok \in BOOLEAN : FormCommit("s1", FALSE, log_ok)
    \/ \E id \in 1..MaxColab, t \in TextosObs :
          id <= Len(colaboradores) /\ AdicionarObservacao("s2", 1, id, t, FALSE)
    \/ \E id \in 1..MaxColab, falha_db \in BOOLEAN, log_ok \in BOOLEAN :
          ExcluirColaborador("s2", 2, id, falha_db, log_ok)
    \/ \E id \in 1..MaxObs : ExcluirObservacao("s2", 2, id, TRUE)

SpecExclusao == InitRegistro /\ [][NextExclusao]_vars

(***************************************************************************)
(* SpecInativos: the administrator runs the wizard in the browser s1 while *)
(* the superadministrator soft deletes records in the browser s2.          *)
(***************************************************************************)
NextInativos ==
    \/ \E k \in Passos : \E f \in FormsCompletos(k) :
          EmOrdem("s1", k) /\ SalvarPasso("s1", 1, k, f)
    \/ Completo("s1") /\ FinalizarValidar("s1", 1)
    \/ \E falha \in BOOLEAN, ts \in Timestamps : GerarMatricula("s1", falha, ts)
    \/ FinalizarCommit("s1", FALSE, TRUE)
    \/ \E id \in 1..MaxColab : ExcluirColaborador("s2", 2, id, FALSE, TRUE)

SpecInativos == InitRegistro /\ [][NextInativos]_vars

(***************************************************************************)
(* SpecPerfil: the superadministrator creates an account in the browser    *)
(* s1, the administrator creates records through the plain form there, and *)
(* any account, or nobody, sends the profile form from the browser s2.     *)
(* No write of the audit log raises.                                       *)
(***************************************************************************)
NextPerfil ==
    \/ \E f \in FormsUsuario : NovoUsuario("s1", 2, f, FALSE, TRUE)
    \/ \E f \in FormsPlanos : FormValidar("s1", 1, f)
    \/ \E ts \in Timestamps : GerarMatricula("s1", FALSE, ts)
    \/ \E falha_db \in BOOLEAN : FormCommit("s1", falha_db, TRUE)
    \/ \E u \in Contas, f \in FormsPerfil, falha_db \in BOOLEAN : MeuPerfil("s2", u, f, falha_db)

SpecPerfil == InitRegistro /\ [][NextPerfil]_vars

(***************************************************************************)
(* SpecEdicao: the administrator creates records through the plain form in *)
(* the browser s1; the superadministrator edits them, with any status      *)
(* text, and soft deletes them in the browser s2.                          *)
(***************************************************************************)
NextEdicao ==
    \/ \E f \in FormsPlanos : FormValidar("s1", 1, f)
    \/ \E ts \in Timestamps : GerarMatricula("s1", FALSE, ts)
    \/ FormCommit("s1", FALSE, TRUE)
    \/ \E id \in 1..MaxColab, f \in FormsEdicaoStatus, log_ok \in BOOLEAN :
          EditarColaborador("s2", 2, id, f, FALSE, log_ok)
    \/ \E id \in 1..MaxColab, log_ok \in BOOLEAN :
          ExcluirColaborador("s2", 2, id, FALSE, log_ok)

SpecEdicao == InitRegistro /\ [][NextEdicao]_vars

(***************************************************************************)
(* validar_cpf and formatar_cpf as functions (main.py 122-137): each       *)
(* client holds one CPF text; the text is validated, and it is formatted   *)
(* again and again, as a text that was stored formatted is formatted again *)
(* when it is read back and posted.                                        *)
(***************************************************************************)
\* The first nine digits of the texts validated
PrefixosCpf ==
    { <<"5", "2", "9", "9", "8", "2", "2", "4", "7">>,
      <<"1", "1", "1", "1", "1", "1", "1", "1", "1">>,
      <<"0", "0", "0", "0", "0", "0", "0", "0", "0">> }

DigitSet == {DigitChars[i] : i \in 1..10}

\* The same digits typed with other punctuation, and texts of other lengths
VariantesCpf ==
    { CPF_A, CPF_A_FMT, CPF_RUIM, CPF_B_FMT,
      <<"5", "2", "9", " ", "9", "8", "2", " ", "2", "4", "7", " ", "2", "5">>,
      <<"5", "2", "9", "9", "8", "2", "2", "4", "7", "2">>,
      <<"5", "2", "9", "9", "8", "2", "2", "4", "7", "2", "5", "5">>,
      <<"a">>, << >> }

TextosCpf ==
    {p \o <<a, b>> : p \in PrefixosCpf, a \in DigitSet, b \in DigitSet} \cup VariantesCpf

ChamadaCpf(t) == [rota |-> "cpf", digitado |-> t, cpf |-> t, vezes |-> 0]

InitCpf ==
    /\ colaboradores = << >>
    /\ usuarios = <<AdminInicial>>
    /\ convites = << >>
    /\ logs_sistema = << >>
    /\ observacoes = << >>
    /\ session = [s \in Sessions |-> EmptyDict]
    /\ pc = [s \in Sessions |-> "idle"]
    /\ \E t1 \in TextosCpf, t2 \in VariantesCpf :
          req = [s \in Sessions |-> IF s = "s1" THEN ChamadaCpf(t1) ELSE ChamadaCpf(t2)]
    /\ resp = [s \in Sessions |-> SemResposta]
    /\ ano = 2026

\* validar_cpf(cpf) on the text as typed: the answer is the status
ValidarCpf(s) ==
    /\ req[s] # NoReq /\ req[s].rota = "cpf"
    /\ resp' = [resp EXCEPT ![s] =
                  Resposta(IF validar_cpf(req[s].digitado) THEN 200 ELSE 400, "", 0)]
    /\ UNCHANGED <<colaboradores, usuarios, convites, logs_sistema, session, pc, req,
                   ano, observacoes>>

\* cpf = formatar_cpf(cpf)
FormatarCpf(s) ==
    /\ req[s] # NoReq /\ req[s].rota = "cpf"
    /\ req[s].vezes < MaxFormatacoes
    /\ req' = [req EXCEPT ![s] = [@ EXCEPT !.cpf = formatar_cpf(@),
                                           !.vezes = @ + 1]]
    /\ UNCHANGED <<colaboradores, usuarios, convites, logs_sistema, session, pc, resp,
                   ano, observacoes>>

NextCpf ==
    \/ ValidarCpf("s1")
    \/ \E s \in Sessions : FormatarCpf(s)

SpecCpf == InitCpf /\ [][NextCpf]_vars

(***************************************************************************)
(* Self-registration, the account of role 'unico' the superadministrator   *)
(* creates for the same e-mail, and the page that completes the record.    *)
(***************************************************************************)
NextCompletar ==
    \/ \E f \in FormsConvite : ConvidarUsuario("s1", 1, f, FALSE, TRUE)
    \/ \E token \in 1..MaxConvites, f \in FormsConvite :
          AutoCadastro("s2", token, f, CODIGO)
    \/ \E codigo \in {CODIGO_min, CODIGO_RUIM} : ConfirmarValidar("s2", codigo)
    \/ \E ts \in Timestamps : GerarMatricula("s2", FALSE, ts)
    \/ ConfirmarCommit("s2", FALSE)
    \/ \E f \in FormsUsuario : NovoUsuario("s1", 2, f, FALSE, TRUE)
    \/ \E u \in Contas, id \in 1..MaxColab : CompletarCadastro("s2", u, id)

SpecCompletar == InitRegistro /\ [][NextCompletar]_vars

(***************************************************************************)
(* Invitations for one CPF, created again and again as they expire.        *)
(***************************************************************************)
NextConvites ==
    \/ \E u \in {0, 1}, f \in FormsConvite, falha_db \in BOOLEAN :
          ConvidarAte(MaxConvitesCpf, "s1", u, f, falha_db, TRUE)
    \/ \E i \in 1..MaxConvitesCpf : PassaPrazo(i)

SpecConvites == InitRegistro /\ [][NextConvites]_vars

(***************************************************************************)
(* Logins, the superadministrator editing accounts, and the own-profile    *)
(* page asked for by whoever the session says is logged in.                *)
(***************************************************************************)
\* The edit form of account id: its own e-mail, a role, `ativo` ticked or
\* not, and in one form a new password that is too short
FormsEdicaoUsuario(id) ==
    LET base(n) == [email |-> usuarios[id].email, nivel_acesso |-> n] IN
    {base(n) : n \in {"admin", "superadmin"}}
    \cup {Update(base(n), [ativo |-> <<"o", "n">>]) : n \in {"admin", "superadmin"}}
    \cup {Update(base("admin"), [nova_senha |-> <<"a">>, confirmar_senha |-> <<"a">>])}

Usernames == {AdminInicial.username, SuperAdmin.username}

NextAcesso ==
    \/ \E s \in Sessions, n \in Usernames, senha_confere \in BOOLEAN, log_ok \in BOOLEAN :
          Login(s, n, senha_confere, log_ok)
    \/ \E id \in 1..Len(usuarios) : \E f \in FormsEdicaoUsuario(id) :
          EditarUsuario("s1", current_user("s1"), id, f, FALSE, FALSE)
    \/ \E f \in {g \in FormsPerfil : g.nova_senha = << >>} :
          MeuPerfil("s2", current_user("s2"), f, FALSE)

SpecAcesso == InitRegistro /\ [][NextAcesso]_vars

(***************************************************************************)
(* Everything that creates or changes an account, from the database of     *)
(* init_db: login, novo_usuario, editar_usuario, meu_perfil, and the       *)
(* self-registration an invitation of the administrator opens.  Each       *)
(* request that can be sent is eventually sent.                            *)
(***************************************************************************)
NextEscalada ==
    \/ \E n \in Usernames, senha_confere \in BOOLEAN : Login("s1", n, senha_confere, FALSE)
    \/ \E f \in FormsUsuario : NovoUsuario("s1", current_user("s1"), f, FALSE, FALSE)
    \/ \E id \in 1..Len(usuarios) : \E f \in FormsEdicaoUsuario(id) :
          EditarUsuario("s1", current_user("s1"), id, f, FALSE, FALSE)
    \/ \E f \in FormsPerfil : MeuPerfil("s1", current_user("s1"), f, FALSE)
    \/ \E f \in FormsConvite : ConvidarUsuario("s1", current_user("s1"), f, FALSE, FALSE)
    \/ \E token \in 1..MaxConvites, f \in FormsConvite :
          AutoCadastro("s2", token, f, CODIGO)
    \/ \E codigo \in {CODIGO_min, CODIGO_RUIM} : ConfirmarValidar("s2", codigo)
    \/ \E ts \in Timestamps : GerarMatricula("s2", FALSE, ts)
    \/ ConfirmarCommit("s2", FALSE)

SpecEscalada == Init /\ [][NextEscalada]_vars /\ WF_vars(NextEscalada)

(***************************************************************************)
(* Vocabulary of the claims.                                               *)
(***************************************************************************)
\* The CPF text a client has staged, as typed
CpfDigitado(s) == Get(DadosFinais(session[s]), "cpf", << >>)

\* Two CPF texts carry the same eleven digits
MesmosDigitos(a, b) == Len(OnlyDigits(a)) = 11 /\ OnlyDigits(a) = OnlyDigits(b)

\* The rows whose CPF carries the digits of the text c
LinhasDoCpf(colabs, c) == {i \in 1..Len(colabs) : MesmosDigitos(colabs[i].cpf, c)}

\* A row of the table is in conflict with the row a request is to insert:
\* the same CPF text or the same identifier
Conflita(colabs, row) ==
    \E i \in 1..Len(colabs) :
        colabs[i].cpf = row.cpf \/ colabs[i].matricula = row.matricula

\* No two rows carry the same identifier
SemMatriculaRepetida(colabs) ==
    \A i, j \in 1..Len(colabs) : i # j => colabs[i].matricula # colabs[j].matricula

\* The required fields in the order finalize checks them, and their messages
Obrigatorios == <<"nome_completo", "email_institucional", "celular", "tipo_vinculo",
                  "data_ingresso">>
MsgObrigatorio == <<MsgNome, MsgEmail, MsgCelular, MsgVinculo, MsgDataIngresso>>
Ausentes(d) == {i \in 1..5 : Obrigatorios[i] \notin DOMAIN d \/ d[Obrigatorios[i]] = << >>}
PrimeiroAusente(d) == CHOOSE i \in Ausentes(d) : \A j \in Ausentes(d) : i <= j

\* A step in which client s sends finalize / in which its commit runs
PassoFinalizar(s) ==
    /\ pc[s] = "idle"
    /\ pc'[s] = "gerar" \/ resp'[s] # resp[s]
    /\ session'[s] = session[s]
    /\ FinalizarValidar(s, 1)
PassoCommit(s)    == pc[s] = "commit" /\ pc'[s] = "idle"
\* The same without assuming what a finalize leaves alone
PassoFinalizarLivre(s) == pc[s] = "idle" /\ FinalizarValidar(s, 1)

(***************************************************************************)
(* C1. When a record with CPF c is stored, a finalize of a client whose    *)
(* staged CPF carries the digits of c, however it is punctuated, is        *)
(* answered 400 with the CPF-already-registered message, stores nothing,   *)
(* and exactly one stored record carries those digits.                     *)
(***************************************************************************)
C1_DuplicateCpfRejected ==
    [][\A s \in Sessions :
         (PassoFinalizar(s) /\ LinhasDoCpf(colaboradores, CpfDigitado(s)) # {})
         => /\ resp'[s] = Resposta(400, MsgCpfDuplicado, 0)
            /\ pc'[s] = "idle"
            /\ colaboradores' = colaboradores
            /\ Cardinality(LinhasDoCpf(colaboradores', CpfDigitado(s))) = 1]_vars

\* Client s1's finalize stored a record; client s2, which staged the same
\* digits typed another way, was answered with the duplicate error.
C1_Witness ==
    /\ resp["s1"].status = 200
    /\ resp["s2"] = Resposta(400, MsgCpfDuplicado, 0)
    /\ MesmosDigitos(colaboradores[resp["s1"].id].cpf, CpfDigitado("s2"))
    /\ colaboradores[resp["s1"].id].cpf # CpfDigitado("s2")
    /\ Cardinality(LinhasDoCpf(colaboradores, CpfDigitado("s2"))) = 1

(***************************************************************************)
(* C2. Every stored record's CPF passes the checksum, and no two stored    *)
(* records carry the same eleven digits, however each is punctuated.       *)
(***************************************************************************)
C2_CpfValidAndUniqueByDigits ==
    /\ \A i \in 1..Len(colaboradores) : validar_cpf(colaboradores[i].cpf)
    /\ \A i, j \in 1..Len(colaboradores) :
           i # j => ~MesmosDigitos(colaboradores[i].cpf, colaboradores[j].cpf)

(***************************************************************************)
(* C3. No two stored records share an identifier (matricula), whatever     *)
(* the interleaving of the requests that create records.                   *)
(***************************************************************************)
C3_MatriculaUnique == SemMatriculaRepetida(colaboradores)

\* Two records are stored, one created by the administrator's form and
\* one by a self-registration, under NEV20260001 and NEV20260002.
C3_Witness ==
    /\ Len(colaboradores) = 2
    /\ \E i, j \in 1..2 :
          /\ colaboradores[i].cadastrado_por = 0
          /\ colaboradores[j].cadastrado_por = 1
    /\ colaboradores[1].matricula = Prefixo(ano) \o <<"0", "0", "0", "1">>
    /\ colaboradores[2].matricula = Prefixo(ano) \o <<"0", "0", "0", "2">>

(***************************************************************************)
(* C4 (as amended). Two finalize requests with different valid CPFs can    *)
(* both compute the same identifier before either commits; the one that    *)
(* commits second is refused by the unique constraint on matricula: its    *)
(* row is not stored, it is answered 500, and no two stored records share  *)
(* an identifier.                                                          *)
(***************************************************************************)
MatriculaTomada(s) ==
    \E i \in 1..Len(colaboradores) :
        /\ colaboradores[i].matricula = req[s].matricula
        /\ colaboradores[i].cpf # req[s].dados.cpf

C4_SecondCommitRefused ==
    [][\A s \in Sessions :
         (PassoCommit(s) /\ MatriculaTomada(s))
         => /\ colaboradores' = colaboradores
            /\ resp'[s].status = 500
            /\ SemMatriculaRepetida(colaboradores')]_vars

\* C4 as stated: the second of two finalize requests that computed the same
\* identifier stores its row as well (unless its commit fails for a reason
\* of its own), so that two records share the identifier.
C4_Original_DuplicatesStored ==
    [][\A s \in Sessions :
         (PassoCommit(s) /\ MatriculaTomada(s) /\ resp'[s].message # MsgErroConexao)
         => colaboradores' = Append(colaboradores, Linha(req[s]))]_vars

\* Both clients read the empty table and computed NEV20260001 (the fallback
\* gives another suffix); one stored its row, the other, registering another
\* person, was refused by the unique constraint.
C4_Witness ==
    \E s, t \in Sessions :
        /\ s # t
        /\ Len(colaboradores) = 1
        /\ resp[t] = Resposta(200, MsgCadastrado, 1)
        /\ colaboradores[1].matricula = Prefixo(ano) \o <<"0", "0", "0", "1">>
        /\ resp[s] = Resposta(500, MsgErroUnique, 0)
        /\ Len(OnlyDigits(CpfDigitado(s))) = 11
        /\ ~MesmosDigitos(colaboradores[1].cpf, CpfDigitado(s))

(***************************************************************************)
(* C5. A finalize that passed the checks and whose commit meets a row with *)
(* the same CPF or the same identifier is rolled back: it is answered 500, *)
(* its row is not stored while the row it ran into stays, nothing is       *)
(* logged, its staged steps are as they were, and the request is over      *)
(* (nothing in flight, no second attempt).                                 *)
(***************************************************************************)
C5_LoserRolledBack ==
    [][\A s \in Sessions :
         (PassoCommit(s) /\ Conflita(colaboradores, Linha(req[s])))
         => /\ resp'[s].status = 500
            /\ resp'[s].message \in {MsgErroUnique, MsgErroConexao}
            /\ colaboradores' = colaboradores
            /\ logs_sistema' = logs_sistema
            /\ session'[s] = session[s]
            /\ PassoKeys \subseteq DOMAIN session'[s]
            /\ pc'[s] = "idle" /\ req'[s] = NoReq]_vars

\* One client's finalize stored the record of a person; the other client,
\* which staged the same person and passed the checks before that commit,
\* was answered with the constraint failure and still holds its five steps.
C5_Witness ==
    \E s, t \in Sessions :
        /\ s # t
        /\ resp[t].status = 200
        /\ resp[s] = Resposta(500, MsgErroUnique, 0)
        /\ MesmosDigitos(colaboradores[resp[t].id].cpf, CpfDigitado(s))
        /\ Cardinality(LinhasDoCpf(colaboradores, CpfDigitado(s))) = 1
        /\ PassoKeys \subseteq DOMAIN session[s]

(***************************************************************************)
(* C6. A finalize whose staged CPF is valid and not registered but which   *)
(* lacks a required field is answered 400 with the message of the first    *)
(* absent field in the order name, e-mail, phone, relationship type, join  *)
(* date, and no record is inserted.                                        *)
(***************************************************************************)
C6_FirstMissingFieldRejected ==
    [][\A s \in Sessions :
         LET d == DadosFinais(session[s]) IN
         (/\ PassoFinalizar(s)
          /\ validar_cpf(CpfDigitado(s))
          /\ LinhasDoCpf(colaboradores, CpfDigitado(s)) = {}
          /\ Ausentes(d) # {})
         => /\ resp'[s] = Resposta(400, MsgObrigatorio[PrimeiroAusente(d)], 0)
            /\ pc'[s] = "idle"
            /\ colaboradores' = colaboradores]_vars

\* Name and e-mail are staged, phone and join date are not: the answer
\* names the phone.
C6_Witness ==
    LET d == DadosFinais(session["s1"]) IN
    /\ validar_cpf(CpfDigitado("s1"))
    /\ LinhasDoCpf(colaboradores, CpfDigitado("s1")) = {}
    /\ Ausentes(d) = {3, 5}
    /\ resp["s1"] = Resposta(400, MsgCelular, 0)

(***************************************************************************)
(* C7. Finalize checks in the order CPF checksum, CPF uniqueness, required *)
(* fields, join-date parsing, and the first check that fails decides the   *)
(* answer: an empty session is answered 'invalid CPF', a registered CPF    *)
(* with fields missing is answered 'already registered'.                   *)
(***************************************************************************)
C7_ValidationOrder ==
    [][\A s \in Sessions :
         LET d == DadosFinais(session[s]) IN
         PassoFinalizar(s)
         => IF ~validar_cpf(CpfDigitado(s))
            THEN resp'[s] = Resposta(400, MsgCpfInvalido, 0)
            ELSE IF LinhasDoCpf(colaboradores, CpfDigitado(s)) # {}
            THEN resp'[s] = Resposta(400, MsgCpfDuplicado, 0)
            ELSE IF Ausentes(d) # {}
            THEN /\ resp'[s].status = 400
                 /\ \E i \in 1..5 : resp'[s].message = MsgObrigatorio[i]
            ELSE IF ~strptime_ok(d.data_ingresso)
            THEN resp'[s] = Resposta(400, MsgDataInvalida, 0)
            ELSE pc'[s] = "gerar" /\ resp'[s] = resp[s]]_vars

\* The staged CPF is registered and the name is missing: the answer is
\* 'already registered', not 'name required'.
C7_Witness ==
    /\ LinhasDoCpf(colaboradores, CpfDigitado("s1")) # {}
    /\ 1 \in Ausentes(DadosFinais(session["s1"]))
    /\ resp["s1"] = Resposta(400, MsgCpfDuplicado, 0)

C9_ExceptionRollsBack ==
    [][\A s \in Sessions :
         PassoCommit(s)
         => /\ resp'[s].status \in {200, 500}
            /\ (resp'[s].status = 500) <=> (colaboradores' = colaboradores)
            /\ (resp'[s].status = 500)
               => /\ logs_sistema' = logs_sistema
                  /\ session'[s] = session[s]
                  /\ pc'[s] = "idle"
                  /\ ValidarFinalizar(DadosFinais(session'[s]), colaboradores')
                       \in {MsgOk, MsgCpfDuplicado}]_vars

\* A commit failed for a reason of its own: nothing is stored and the five
\* steps are still staged.
C9_Witness ==
    \E s \in Sessions :
        /\ resp[s] = Resposta(500, MsgErroConexao, 0)
        /\ colaboradores = << >>
        /\ PassoKeys \subseteq DOMAIN session[s]
        /\ pc[s] = "idle"

(***************************************************************************)
(* C10. A finalize rejected by a check (checksum, registered CPF, missing  *)
(* field, malformed join date) changes nothing: the record, user and audit *)
(* tables and the staged steps of the session are as before.               *)
(***************************************************************************)
C10_RejectionChangesNothing ==
    [][\A s \in Sessions :
         (PassoFinalizarLivre(s) /\ resp'[s].status = 400)
         => /\ colaboradores' = colaboradores
            /\ usuarios' = usuarios
            /\ logs_sistema' = logs_sistema
            /\ convites' = convites
            /\ session' = session
            /\ pc' = pc /\ req' = req]_vars

\* With a record and an audit entry stored and steps staged, a finalize was
\* rejected.
C10_Witness ==
    /\ Len(colaboradores) >= 1
    /\ Len(logs_sistema) >= 1
    /\ resp["s1"].status = 400
    /\ PassoKey(1) \in DOMAIN session["s1"]
    /\ PassoKey(3) \in DOMAIN session["s1"]
    /\ pc["s1"] = "idle"

(***************************************************************************)
(* C11. A save of step k stores exactly the fields of that submission as   *)
(* the session's field set of step k (a field the submission lacks takes   *)
(* its default, never the value of an earlier save), and leaves the field  *)
(* sets of the other four steps and every table as they were.              *)
(***************************************************************************)
C11_SaveReplacesStep ==
    [][\A s \in Sessions : \A k \in Passos : \A f \in FormsQuaisquer(k) :
         (/\ pc[s] = "idle"
          /\ resp'[s].message = MsgPassoSalvo
          /\ SalvarPasso(s, 1, k, f))
         => /\ PassoKey(k) \in DOMAIN session'[s]
            /\ \A x \in DOMAIN session'[s][PassoKey(k)] :
                  session'[s][PassoKey(k)][x] =
                      (IF x \in DOMAIN f THEN f[x]
                       ELSE IF x = "atende_imprensa" THEN FALSE ELSE << >>)
            /\ \A j \in Passos \ {k} :
                  /\ PassoKey(j) \in DOMAIN session'[s]
                         <=> PassoKey(j) \in DOMAIN session[s]
                  /\ PassoKey(j) \in DOMAIN session[s]
                         => session'[s][PassoKey(j)] = session[s][PassoKey(j)]
            /\ colaboradores' = colaboradores
            /\ usuarios' = usuarios
            /\ convites' = convites
            /\ logs_sistema' = logs_sistema]_vars

\* After a record was created from complete steps, step 1 was saved with an
\* empty name next to the staged steps 2 and 3.
C11_Witness ==
    /\ Len(colaboradores) >= 1
    /\ resp["s1"].message = MsgPassoSalvo
    /\ PassoKeys \subseteq DOMAIN session["s1"]
    /\ session["s1"][PassoKey(1)].nome_completo = << >>
    /\ session["s1"][PassoKey(2)].celular = CELULAR
    /\ session["s1"][PassoKey(3)].tipo_vinculo = VINCULO

C13_RefusedRoleRunsNothing ==
    [][\A s \in Sessions : \A u \in 1..MaxUsuarios :
         (/\ u <= Len(usuarios)
          /\ pc[s] = "idle"
          /\ \/ /\ usuarios[u].nivel_acesso \notin {"admin", "superadmin"}
                /\ \/ \E k \in Passos : \E f \in FormsCompletos(k) : SalvarPasso(s, u, k, f)
                   \/ FinalizarValidar(s, u)
                   \/ \E f \in FormsPlanos : FormValidar(s, u, f)
                   \/ \E f \in FormsConvite : ConvidarUsuario(s, u, f, FALSE, TRUE)
             \/ /\ usuarios[u].nivel_acesso # "superadmin"
                /\ \/ \E id \in 1..MaxColab, f \in FormsEdicao :
                         EditarColaborador(s, u, id, f, FALSE, TRUE)
                   \/ \E id \in 1..MaxColab : ExcluirColaborador(s, u, id, FALSE, TRUE)
                   \/ \E id \in 1..MaxObs : ExcluirObservacao(s, u, id, TRUE)
                   \/ \E f \in FormsUsuario : NovoUsuario(s, u, f, FALSE, TRUE))
         => /\ colaboradores' = colaboradores
            /\ usuarios' = usuarios
            /\ observacoes' = observacoes
            /\ convites' = convites
            /\ logs_sistema' = logs_sistema
            /\ session' = session
            /\ pc' = pc /\ req' = req]_vars

\* The account of role 'unico' exists and the browser it uses was sent to
\* the dashboard, with a record, a note and an audit entry stored.
C13_Witness ==
    /\ Len(usuarios) = 3
    /\ usuarios[3].nivel_acesso = "unico"
    /\ resp["s2"] = Resposta(302, MsgDashboard, 0)
    /\ Len(colaboradores) >= 1
    /\ Len(observacoes) >= 1
    /\ Len(logs_sistema) >= 1

C15_InactiveCpfStillBlocks ==
    [][\A s \in Sessions :
         (/\ PassoFinalizarLivre(s)
          /\ \E i \in 1..Len(colaboradores) :
                /\ colaboradores[i].status = "Inativo"
                /\ colaboradores[i].cpf = formatar_cpf(strip(CpfDigitado(s))))
         => /\ resp'[s] = Resposta(400, MsgCpfDuplicado, 0)
            /\ pc'[s] = "idle"
            /\ colaboradores' = colaboradores]_vars

\* Row 1 is inactive and the finalize of the steps staged with its CPF was
\* refused as a duplicate.
C15_Witness ==
    /\ Len(colaboradores) = 1
    /\ colaboradores[1].status = "Inativo"
    /\ Completo("s1")
    /\ colaboradores[1].cpf = formatar_cpf(strip(CpfDigitado("s1")))
    /\ resp["s1"] = Resposta(400, MsgCpfDuplicado, 0)
    /\ resp["s2"] = Resposta(302, MsgDesativado, 1)

(***************************************************************************)
(* C16. An invitation is consumed at most once: of the rows stored by      *)
(* self-registration (cadastrado_por is None), at most one comes from each *)
(* invitation, so there are no more such rows than invitations.            *)
(***************************************************************************)
C16_InvitationConsumedOnce ==
    Cardinality({i \in 1..Len(colaboradores) : colaboradores[i].cadastrado_por = 0})
        <= Len(convites)

(***************************************************************************)
(* C17. A confirm sent after the invitation expired stores no record: when *)
(* the last answer a client got was the expired-invitation page and the    *)
(* invitation of its confirm is expired, the commit of that confirm leaves *)
(* the record table as it was.                                             *)
(***************************************************************************)
C17_ExpiredInvitationCreatesNothing ==
    [][\A s \in Sessions :
         (/\ pc[s] = "commit"
          /\ pc'[s] = "idle"
          /\ req[s].rota = "auto"
          /\ resp[s] = Resposta(404, MsgConviteExpirado, 0)
          /\ convites[req[s].convite].expirado)
         => colaboradores' = colaboradores]_vars

(***************************************************************************)
(* C18. When the write of the audit entry raises after the commit of a     *)
(* handler, no entry is added, the change the handler committed stays (the *)
(* created row, the added note, the status 'Inativo'), and the handler     *)
(* answers as on success.                                                  *)
(***************************************************************************)
C18_LogFailureKeepsChange ==
    [][/\ (/\ pc["s1"] = "commit"
           /\ resp'["s1"].message = MsgCadastrado
           /\ FormCommit("s1", FALSE, FALSE))
          => /\ logs_sistema' = logs_sistema
             /\ Len(colaboradores') = Len(colaboradores) + 1
             /\ colaboradores'[Len(colaboradores')].cpf = req["s1"].dados.cpf
             /\ resp'["s1"] = Resposta(302, MsgCadastrado, Len(colaboradores'))
       /\ \A id \in 1..MaxColab :
             (/\ id <= Len(colaboradores)
              /\ pc["s2"] = "idle"
              /\ ExcluirColaborador("s2", 2, id, FALSE, FALSE))
             => /\ logs_sistema' = logs_sistema
                /\ colaboradores'[id].status = "Inativo"
                /\ resp'["s2"] = Resposta(302, MsgDesativado, id)
       /\ \A id \in 1..MaxColab :
             (/\ id <= Len(colaboradores)
              /\ pc["s2"] = "idle"
              /\ AdicionarObservacao("s2", 1, id, <<"a">>, FALSE))
             => /\ logs_sistema' = logs_sistema
                /\ Len(observacoes') = Len(observacoes) + 1
                /\ observacoes'[Len(observacoes')].colaborador_id = id
                /\ resp'["s2"] = Resposta(302, MsgObsAdicionada, id)]_vars

\* A row was created and then soft deleted, and the audit log is empty:
\* both writes of the log raised.
C18_Witness ==
    /\ Len(colaboradores) = 1
    /\ colaboradores[1].status = "Inativo"
    /\ logs_sistema = << >>
    /\ resp["s1"] = Resposta(302, MsgCadastrado, 1)
    /\ resp["s2"] = Resposta(302, MsgDesativado, 1)

(***************************************************************************)
(* C19. When no write of the audit log raises, every step of a handler     *)
(* that changes the account, record, note or invitation table adds an      *)
(* entry to the audit log.                                                 *)
(***************************************************************************)
C19_EveryCommitIsLogged ==
    [][(\/ usuarios' # usuarios
        \/ colaboradores' # colaboradores
        \/ observacoes' # observacoes
        \/ convites' # convites)
       => Len(logs_sistema') > Len(logs_sistema)]_vars

(***************************************************************************)
(* C20. The audit log is append-only: across every step the entries stored *)
(* before are still there, in their place, with the same actor, action,    *)
(* module and detail, and the log is no shorter.                           *)
(***************************************************************************)
C20_AuditLogAppendOnly ==
    [][/\ Len(logs_sistema') >= Len(logs_sistema)
       /\ \A i \in 1..Len(logs_sistema) :
             /\ logs_sistema'[i].usuario_id = logs_sistema[i].usuario_id
             /\ logs_sistema'[i].acao = logs_sistema[i].acao
             /\ logs_sistema'[i].detalhes = logs_sistema[i].detalhes
             /\ logs_sistema'[i] = logs_sistema[i]]_vars

\* The entry of a create by the administrator is followed by the entry of
\* the soft delete of that row by the superadministrator.
C20_Witness ==
    /\ Len(logs_sistema) >= 2
    /\ logs_sistema[1].acao = "Cadastrou colaborador"
    /\ logs_sistema[1].usuario_id = 1
    /\ logs_sistema[2].acao = "Desativou colaborador"
    /\ logs_sistema[2].usuario_id = 2
    /\ colaboradores[1].status = "Inativo"

(***************************************************************************)
(* C21. In every reachable state the status of every stored record is      *)
(* 'Ativo' or 'Inativo'.                                                   *)
(***************************************************************************)
C21_StatusIsEnum ==
    \A i \in 1..Len(colaboradores) : colaboradores[i].status \in {"Ativo", "Inativo"}

(***************************************************************************)
(* C22. In every reachable state every stored record has a full name, an   *)
(* institutional e-mail, a phone, a relationship type and a join date that *)
(* are present: none is the empty text.                                    *)
(***************************************************************************)
C22_RequiredFieldsPresent ==
    \A i \in 1..Len(colaboradores) :
        /\ colaboradores[i].nome_completo # << >>
        /\ colaboradores[i].email_institucional # << >>
        /\ colaboradores[i].celular # << >>
        /\ colaboradores[i].tipo_vinculo # << >>
        /\ colaboradores[i].data_ingresso # << >>

(***************************************************************************)
(* C23. validar_cpf accepts a text exactly when its digits are eleven, are *)
(* not eleven times the same digit, the tenth is the check digit of the    *)
(* first nine under the weights 10 down to 2 and the eleventh is the check *)
(* digit of the first ten under the weights 11 down to 2, where the check  *)
(* digit of a weighted sum is 0 when the sum leaves a remainder below 2    *)
(* modulo 11 and 11 minus the remainder otherwise.                         *)
(***************************************************************************)
\* The sum of the first n digits of d under the weights n + 1 down to 2
RECURSIVE SomaPonderada(_, _, _)
SomaPonderada(d, n, k) ==
    IF k > n THEN 0 ELSE DigitVal(d[k]) * (n + 2 - k) + SomaPonderada(d, n, k + 1)

DigitoVerificador(d, n) ==
    LET r == SomaPonderada(d, n, 1) % 11 IN IF r < 2 THEN 0 ELSE 11 - r

CpfAceitavel(t) ==
    LET d == OnlyDigits(t) IN
    /\ Len(d) = 11
    /\ \E k \in 2..11 : d[k] # d[1]
    /\ DigitVal(d[10]) = DigitoVerificador(d, 9)
    /\ DigitVal(d[11]) = DigitoVerificador(d, 10)

C23_ValidarCpfChecksum ==
    [][(resp'["s1"] # resp["s1"] /\ req["s1"] # NoReq /\ req["s1"].rota = "cpf")
         => (resp'["s1"].status = 200 <=> CpfAceitavel(req["s1"].digitado))]_vars

\* Eleven times the digit 1 pass both check digits and are refused all the same
C23_Witness ==
    /\ req["s1"] # NoReq /\ req["s1"].rota = "cpf"
    /\ req["s1"].digitado = [k \in 1..11 |-> "1"]
    /\ DigitVal("1") = DigitoVerificador(req["s1"].digitado, 9)
    /\ DigitVal("1") = DigitoVerificador(req["s1"].digitado, 10)
    /\ resp["s1"].status = 400

(***************************************************************************)
(* C24. A call of formatar_cpf keeps the digits of a text of eleven        *)
(* digits, leaves a text that was already formatted as it is, and gives    *)
(* the text another client got from the same eleven digits typed with      *)
(* other punctuation.                                                      *)
(***************************************************************************)
C24_FormatarCpfCanonical ==
    [][\A s \in Sessions :
         (req[s] # NoReq /\ req'[s] # req[s] /\ req[s].rota = "cpf"
            /\ Len(OnlyDigits(req[s].digitado)) = 11)
         => /\ OnlyDigits(req'[s].cpf) = OnlyDigits(req[s].digitado)
            /\ req[s].vezes >= 1 => req'[s].cpf = req[s].cpf
            /\ \A o \in Sessions :
                  (req[o].vezes >= 1
                     /\ OnlyDigits(req[o].digitado) = OnlyDigits(req[s].digitado))
                  => req'[s].cpf = req[o].cpf]_vars

\* Both clients formatted the same digits, typed differently, one of them twice
C24_Witness ==
    /\ req["s1"] # NoReq /\ req["s2"] # NoReq
    /\ req["s1"].rota = "cpf" /\ req["s2"].rota = "cpf"
    /\ req["s1"].digitado = CPF_A /\ req["s2"].digitado = CPF_A_FMT
    /\ req["s1"].vezes = 2 /\ req["s2"].vezes >= 1
    /\ req["s1"].cpf = req["s2"].cpf

(***************************************************************************)
(* C25. Confirming a self-registration is all or nothing: for every        *)
(* invitation, either it is marked used and both the record and the user   *)
(* account made from it are stored, or it is unused and neither is stored. *)
(***************************************************************************)
C25_ConfirmAllOrNothing ==
    \A t \in 1..Len(convites) :
        LET registro == \E i \in 1..Len(colaboradores) :
                           /\ colaboradores[i].cadastrado_por = 0
                           /\ colaboradores[i].email_institucional = convites[t].email
            conta    == \E j \in 1..Len(usuarios) :
                           /\ usuarios[j].nivel_acesso = "unico"
                           /\ usuarios[j].email = convites[t].email
        IN \/ convites[t].usado /\ registro /\ conta
           \/ ~convites[t].usado /\ ~registro /\ ~conta

(***************************************************************************)
(* C26. The principal of role 'unico' whose e-mail is the e-mail of a      *)
(* self-registered record, asking for the page that completes that record, *)
(* passes the gate and gets the page.                                      *)
(***************************************************************************)
C26_NewPrincipalReachesPage ==
    [][\A u \in 1..Len(usuarios), id \in 1..Len(colaboradores) :
         (/\ resp'["s2"] # resp["s2"]
          /\ usuarios[u].nivel_acesso = "unico"
          /\ colaboradores[id].cadastrado_por = 0
          /\ usuarios[u].email = colaboradores[id].email_institucional
          /\ CompletarCadastro("s2", u, id))
         => resp'["s2"].status = 200]_vars

(***************************************************************************)
(* C27. No two stored invitations for the same CPF text are both active,   *)
(* that is unused and unexpired.                                           *)
(***************************************************************************)
C27_OneActiveInvitationPerCpf ==
    \A i, j \in 1..Len(convites) :
        (i # j /\ convites[i].cpf = convites[j].cpf)
        => ~(is_valido(convites[i]) /\ is_valido(convites[j]))

(***************************************************************************)
(* C29. A finalize sent right after a successful finalize of the same      *)
(* session, with no step saved in between, is answered 400 'invalid CPF',  *)
(* stores no record and starts no commit: the staged CPF is gone.          *)
(***************************************************************************)
C29_FinalizeNotRepeatable ==
    [][\A s \in Sessions :
         (resp[s].message = MsgCadastrado /\ PassoFinalizarLivre(s))
         => /\ CpfDigitado(s) = << >>
            /\ resp'[s] = Resposta(400, MsgCpfInvalido, 0)
            /\ colaboradores' = colaboradores
            /\ pc'[s] = "idle"]_vars

\* One record is stored, the session holds no step, and the last answer is
\* the refusal of the repeated finalize
C29_Witness ==
    /\ Len(colaboradores) = 1
    /\ DOMAIN session["s1"] \cap PassoKeys = {}
    /\ pc["s1"] = "idle"
    /\ resp["s1"] = Resposta(400, MsgCpfInvalido, 0)

(***************************************************************************)
(* C30. A login with the right password for an account whose `ativo` is    *)
(* false starts no session and leaves the last-login time as it is, and a  *)
(* request for the own-profile page from a session whose account has       *)
(* `ativo` false is sent to the login page.                                *)
(***************************************************************************)
C30_DeactivatedHasNoAccess ==
    [][\A s \in Sessions, u \in 1..Len(usuarios) :
         ~usuarios[u].ativo
         => /\ (resp'[s] # resp[s] /\ \E log_ok \in BOOLEAN :
                                         Login(s, usuarios[u].username, TRUE, log_ok))
               => (session'[s] = session[s] /\ usuarios' = usuarios)
            /\ (resp'[s] # resp[s] /\ current_user(s) = u
                  /\ \E f \in FormsPerfil : MeuPerfil(s, u, f, FALSE))
               => resp'[s] = Resposta(302, MsgLogin, 0)]_vars

(***************************************************************************)
(* C28. Starting from the database of init_db, some session eventually     *)
(* belongs to a principal that passes superadmin_required.                 *)
(***************************************************************************)
\* No stored account has the role 'superadmin'
NenhumSuperadmin ==
    \A u \in 1..Len(usuarios) : usuarios[u].nivel_acesso # "superadmin"

C28_SuperadminEventually ==
    <>(\E s \in Sessions : superadmin_required(current_user(s)))

=============================================================================
